---- MODULE Spec2Model ----
(***************************************************************************)
(* Verification model of the winning-cv job discovery pipeline.            *)
(*                                                                         *)
(*   Spec      the file-backed search-task store of api/routes/jobs.py     *)
(*             and the background runs that write to it                    *)
(*   SpecUrl   utils.canonicalize_url as a pure function                   *)
(*   SpecClean ContentCleaner.clean_html as a pure function                *)
(*   SpecPipe  the scraping phase of JobProcessor against the record store *)
(*   SpecScore JobMatcher.calculate_match_score as a pure function         *)
(*   SpecCookie check_cookie_health of job_sources/linkedin_cookie_health  *)
(*             with its session cache, as time passes                      *)
(*   SpecRun   one run of JobProcessor.process_jobs: the three source      *)
(*             tasks, then the matching phase                              *)
(*   SpecRerun the same run over the store that earlier runs have left    *)
(*   SpecScrape the Seek and LinkedIn scraper adapters, call after call    *)
(***************************************************************************)
EXTENDS Integers, Sequences, FiniteSets, TLC

\* ------------------------------------------------------------------------
\* Bounds
\* ------------------------------------------------------------------------
NumTasks == 2
MaxResults == 1
MaxUrlLen == 4
MaxHtmlLen == 4
MaxMaxLength == 3
MaxRuns == 2
MaxJobs == 2
MaxPostings == 2
MaxAgeHours == 36
MaxCap == 2
MaxCards == 2
MaxPages == 2
MaxScrapes == 2

VARIABLES
    tasksFile,    \* content of /tmp/winningcv_search_tasks.json
    pc,           \* per task id: position of its handler / worker thread
    phase,        \* per task id: position inside the current store call
    tasks,        \* per task id: the local dict `tasks` of the store call
    exc,          \* per task id: exception caught by _run_job_search
    results,      \* per task id: len(results) of process_jobs
    expected,     \* per task id: its own writes applied one after another
    polled,       \* per task id: what get_search_status has returned so far
    url,          \* SpecUrl: the argument of canonicalize_url
    canon,        \* SpecUrl: canonicalize_url(url)
    canon2,       \* SpecUrl: canonicalize_url(canonicalize_url(url))
    urlPc,        \* SpecUrl: how many times the function has been applied
    html_content, \* SpecClean: the argument of clean_html
    max_length,   \* SpecClean: ContentCleaner.max_length
    cleaned,      \* SpecClean: the value clean_html returned
    cleanPc,      \* SpecClean: input / returned / raised
    table,        \* SpecPipe: the records of the Airtable job table
    runNo,        \* SpecPipe: which run of process_jobs is executing
    srcPc,        \* SpecPipe: per source task, its position
    existing_links, \* SpecPipe: per source task, its local set
    job_data,     \* SpecPipe: per source task, job_url of the posting handled
    job_url,      \* SpecPipe: per source task, its canonical URL
    left,         \* SpecPipe: per source task, postings of job_list to go
    budget,       \* SpecPipe: postings the scrapers of this run may still return
    new_jobs,     \* SpecPipe: per source task, its counter
    texts,        \* SpecScore: what job_desc and cv_text are
    similarity,   \* SpecScore: cosine similarity of the two TF-IDF vectors
    llm,          \* SpecScore: what the call of the evaluator comes to
    match,        \* SpecScore: what calculate_match_score returned
    scorePc,      \* SpecScore: input / returned / raised
    runPhase,     \* SpecRun: scraping / matching / done
    taskPc,       \* SpecRun: per source task, running / done
    counts,       \* SpecRun: per source task, its new_jobs counter
    failedSrc,    \* SpecRun: per source task, whether it raised
    run_results,  \* SpecRun: the dict `results` of process_jobs
    total_new,    \* SpecRun: sum(results.values())
    postings,     \* SpecRun: the job table, one record per 'Job Link'
    matchPc,      \* SpecRun: position inside _process_job_matches
    unprocessed_jobs, \* SpecRun: the list get_unprocessed_jobs returned
    pos,          \* SpecRun: index of the record the loop is at
    cur,          \* SpecRun: score and analysis of that record
    jobs_with_cv, \* SpecRun: the list the matching phase builds
    returned,     \* SpecRun: the list process_jobs returned
    log,          \* SpecRun: the calls made so far, in order
    matchStarts,  \* SpecRun: how many times the matching phase has started
    cookies,      \* SpecCookie: the persisted LinkedIn cookies
    cacheFile,    \* SpecCookie: cookies/session_status_cache.json
    ckPc,         \* SpecCookie: position inside check_cookie_health
    args,         \* SpecCookie: use_session_test and force_test of the call
    cache,        \* SpecCookie: the local `cache` of the call
    atDecide,     \* SpecCookie: the cache file when the call chose to probe or not
    probed,       \* SpecCookie: whether the call started a real probe
    basis,        \* SpecCookie: the probe result the call went by
    health,       \* SpecCookie: the dict the call returned
    callPc,       \* SpecCookie: position of the entry point that is running
    caller,       \* SpecCookie: the entry point and its send_alert
    alerts,       \* SpecCookie: alerts the entry point has dispatched
    verdict,      \* SpecCookie: what validate_session_for_job went by and returned
    lastProbe,    \* SpecCookie: how the most recent real probe ended
    errBefore,    \* SpecCookie: whether the probe before this check raised
    cacheFrom,    \* SpecCookie: the probe the cache file is from
    scPc,         \* SpecScrape: position inside the adapter call
    caps,         \* SpecScrape: max_jobs_to_scrape and max_jobs_for_description
    has_valid_session, \* SpecScrape: LinkedInJobScraper.has_valid_session
    verified,     \* SpecScrape: what the session check of this scrape found
    scrapes,      \* SpecScrape: adapter calls made so far
    page_count,   \* SpecScrape: page_count of scrape_jobs
    cards_left,   \* SpecScrape: job cards of the page still to handle
    all_jobs,     \* SpecScrape: len(all_jobs) of scrape_jobs
    jobs,         \* SpecScrape: len(jobs) / len(job_listings) of the page
    processed_cards, \* SpecScrape: processed_cards of extract_job_listings
    processed_descriptions, \* SpecScrape: its processed_descriptions
    fetches,      \* SpecScrape: detail pages loaded during this call
    job_list      \* SpecScrape: len of the list the call returned, -1 before

taskVars == <<tasksFile, pc, phase, tasks, exc, results, expected, polled>>

urlVars == <<url, canon, canon2, urlPc>>

cleanVars == <<html_content, max_length, cleaned, cleanPc>>

pipeVars ==
    <<table, runNo, srcPc, existing_links, job_data, job_url, left, budget,
      new_jobs>>

scoreVars == <<texts, similarity, llm, match, scorePc>>

runVars ==
    <<runPhase, taskPc, counts, failedSrc, run_results, total_new, postings,
      matchPc, unprocessed_jobs, pos, cur, jobs_with_cv, returned, log,
      matchStarts>>

cookieVars ==
    <<cookies, cacheFile, ckPc, args, cache, atDecide, probed, basis, health,
      callPc, caller, alerts, verdict, lastProbe, errBefore, cacheFrom>>

scrapeVars ==
    <<scPc, caps, has_valid_session, verified, scrapes, page_count,
      cards_left, all_jobs, jobs, processed_cards, processed_descriptions,
      fetches, job_list>>

vars ==
    <<taskVars, urlVars, cleanVars, pipeVars, scoreVars, runVars, cookieVars,
      scrapeVars>>

\* What the actions of one specification leave alone
TaskFrame ==
    UNCHANGED <<urlVars, cleanVars, pipeVars, scoreVars, runVars, cookieVars,
               scrapeVars>>
UrlFrame ==
    UNCHANGED <<taskVars, cleanVars, pipeVars, scoreVars, runVars, cookieVars,
               scrapeVars>>
CleanFrame ==
    UNCHANGED <<taskVars, urlVars, pipeVars, scoreVars, runVars, cookieVars,
               scrapeVars>>
PipeFrame ==
    UNCHANGED <<taskVars, urlVars, cleanVars, scoreVars, runVars, cookieVars,
               scrapeVars>>
ScoreFrame ==
    UNCHANGED <<taskVars, urlVars, cleanVars, pipeVars, runVars, cookieVars,
               scrapeVars>>
CookieFrame ==
    UNCHANGED <<taskVars, urlVars, cleanVars, pipeVars, scoreVars, runVars,
               scrapeVars>>
ScrapeFrame ==
    UNCHANGED <<taskVars, urlVars, cleanVars, pipeVars, scoreVars, runVars,
                cookieVars>>
RunFrame ==
    UNCHANGED <<taskVars, urlVars, cleanVars, pipeVars, scoreVars, cookieVars,
               scrapeVars>>

\* ------------------------------------------------------------------------
\* Task store (api/routes/jobs.py)
\* ------------------------------------------------------------------------
TaskIds == 1..NumTasks

\* SearchStatus
PENDING == "pending"
RUNNING == "running"
COMPLETED == "completed"
FAILED == "failed"
SearchStatus == {PENDING, RUNNING, COMPLETED, FAILED}

\* results_count of a task that has not completed
None == -1

\* dict.get on a missing key
NoTask == [status |-> "absent", progress |-> 0, message |-> "", results_count |-> None]

\* The empty dict {}
EmptyTasks == [t \in TaskIds |-> NoTask]

\* The file does not exist / holds what an open(..., 'w') left / holds a dict
FileMissing == [st |-> "missing", tasks |-> EmptyTasks]
FileTruncated == [st |-> "truncated", tasks |-> EmptyTasks]
FileWith(d) == [st |-> "json", tasks |-> d]

\* _read_tasks: {} when the file is missing or json.load fails on it
read_tasks(f) == IF f.st = "json" THEN f.tasks ELSE EmptyTasks

\* _get_task
get_task(f, t) == read_tasks(f)[t]

\* dict.update
update(rec, updates) ==
    [k \in DOMAIN rec |-> IF k \in DOMAIN updates THEN updates[k] ELSE rec[k]]

\* The record start_job_search creates
InitialTask ==
    [status |-> PENDING, progress |-> 0, message |-> "Task created", results_count |-> None]

\* keyword arguments _run_job_search passes to JobProcessor, and the
\* parameters JobProcessor.__init__ declares
ProcessorKwargs == {"config", "airtable", "progress_callback"}
ProcessorParams == {"config", "airtable"}

\* The updates of the store call a thread at position p issues
UpdatesAt(t, p) ==
    CASE p = "upd_running" ->
           [status |-> RUNNING, progress |-> 10, message |-> "Initializing search..."]
      [] p = "upd_connecting" ->
           [progress |-> 20, message |-> "Connecting to job boards..."]
      [] p = "upd_completed" ->
           [progress |-> 100, status |-> COMPLETED, message |-> "Complete!",
            results_count |-> results[t]]
      [] p = "upd_failed" ->
           [status |-> FAILED, message |-> exc[t]]

\* Position that follows the store call made at position p
AfterCall(p) ==
    CASE p = "create" -> "upd_running"
      [] p = "upd_running" -> "upd_connecting"
      [] p = "upd_connecting" -> "mk_airtable"
      [] p = "upd_completed" -> "done"
      [] p = "upd_failed" -> "done"

StoreCalls == {"create", "upd_running", "upd_connecting", "upd_completed", "upd_failed"}

PhaseAt(p) == IF p \in StoreCalls THEN "read" ELSE "none"

TaskInit ==
    /\ tasksFile = FileMissing
    /\ pc = [t \in TaskIds |-> "idle"]
    /\ phase = [t \in TaskIds |-> "none"]
    /\ tasks = [t \in TaskIds |-> EmptyTasks]
    /\ exc = [t \in TaskIds |-> "none"]
    /\ results = [t \in TaskIds |-> None]
    /\ expected = [t \in TaskIds |-> NoTask]
    /\ polled = [t \in TaskIds |->
                    [found |-> FALSE, status |-> "absent", progress |-> 0,
                     lost |-> FALSE]]

\* start_job_search: a fresh task id, then _set_task
start_job_search(t) ==
    /\ pc[t] = "idle"
    /\ pc' = [pc EXCEPT ![t] = "create"]
    /\ phase' = [phase EXCEPT ![t] = "read"]
    /\ UNCHANGED <<tasksFile, tasks, exc, results, expected, polled>>
    /\ TaskFrame

\* First half of _set_task / _update_task: tasks = _read_tasks(), then the
\* change to the local dict.  _update_task returns here when the id is absent.
store_read(t) ==
    /\ phase[t] = "read"
    /\ LET d == read_tasks(tasksFile) IN
       IF pc[t] = "create"
       THEN /\ tasks' = [tasks EXCEPT ![t] = [d EXCEPT ![t] = InitialTask]]
            /\ phase' = [phase EXCEPT ![t] = "open"]
            /\ UNCHANGED <<pc, expected>>
       ELSE IF d[t] # NoTask
       THEN /\ tasks' = [tasks EXCEPT ![t] =
                            [d EXCEPT ![t] = update(d[t], UpdatesAt(t, pc[t]))]]
            /\ phase' = [phase EXCEPT ![t] = "open"]
            /\ UNCHANGED <<pc, expected>>
       ELSE /\ tasks' = [tasks EXCEPT ![t] = EmptyTasks]
            /\ pc' = [pc EXCEPT ![t] = AfterCall(pc[t])]
            /\ phase' = [phase EXCEPT ![t] = PhaseAt(AfterCall(pc[t]))]
            /\ expected' = [expected EXCEPT ![t] = update(@, UpdatesAt(t, pc[t]))]
    /\ UNCHANGED <<tasksFile, exc, results, polled>>
    /\ TaskFrame

\* _write_tasks, open(_TASKS_FILE, 'w'): the file is truncated before the lock
write_tasks_open(t) ==
    /\ phase[t] = "open"
    /\ tasksFile' = FileTruncated
    /\ phase' = [phase EXCEPT ![t] = "dump"]
    /\ UNCHANGED <<pc, tasks, exc, results, expected, polled>>
    /\ TaskFrame

\* _write_tasks, json.dump under the lock and the flush of the close
write_tasks_dump(t) ==
    /\ phase[t] = "dump"
    /\ tasksFile' = FileWith(tasks[t])
    /\ expected' = [expected EXCEPT ![t] =
                       IF pc[t] = "create" THEN InitialTask
                       ELSE update(@, UpdatesAt(t, pc[t]))]
    /\ pc' = [pc EXCEPT ![t] = AfterCall(pc[t])]
    /\ phase' = [phase EXCEPT ![t] = PhaseAt(AfterCall(pc[t]))]
    /\ tasks' = [tasks EXCEPT ![t] = EmptyTasks]
    /\ UNCHANGED <<exc, results, polled>>
    /\ TaskFrame

\* _run_job_search, AirtableManager(...): returns or raises
mk_airtable(t) ==
    /\ pc[t] = "mk_airtable"
    /\ \E ok \in BOOLEAN :
         IF ok
         THEN /\ pc' = [pc EXCEPT ![t] = "mk_processor"]
              /\ UNCHANGED <<phase, exc>>
         ELSE /\ pc' = [pc EXCEPT ![t] = "upd_failed"]
              /\ phase' = [phase EXCEPT ![t] = "read"]
              /\ exc' = [exc EXCEPT ![t] = "AirtableError"]
    /\ UNCHANGED <<tasksFile, tasks, results, expected, polled>>
    /\ TaskFrame

\* _run_job_search, JobProcessor(...) and processor.process_jobs(): the call
\* binds its keyword arguments first, then the pipeline returns a list or raises
run_pipeline(t) ==
    /\ pc[t] = "mk_processor"
    /\ IF ProcessorKwargs \subseteq ProcessorParams
       THEN \E n \in (0..MaxResults) \cup {None} :
              IF n # None
              THEN /\ results' = [results EXCEPT ![t] = n]
                   /\ pc' = [pc EXCEPT ![t] = "upd_completed"]
                   /\ UNCHANGED exc
              ELSE /\ exc' = [exc EXCEPT ![t] = "PipelineError"]
                   /\ pc' = [pc EXCEPT ![t] = "upd_failed"]
                   /\ UNCHANGED results
       ELSE /\ exc' = [exc EXCEPT ![t] = "TypeError"]
            /\ pc' = [pc EXCEPT ![t] = "upd_failed"]
            /\ UNCHANGED results
    /\ phase' = [phase EXCEPT ![t] = "read"]
    /\ UNCHANGED <<tasksFile, tasks, expected, polled>>
    /\ TaskFrame

\* get_search_status: 404 when _get_task returns nothing
get_search_status(t) ==
    /\ LET task == get_task(tasksFile, t) IN
       polled' = [polled EXCEPT ![t] =
                     IF task = NoTask
                     THEN [@ EXCEPT !.lost = @ \/ pc[t] \notin {"idle", "create"}]
                     ELSE [@ EXCEPT !.found = TRUE, !.status = task.status,
                                    !.progress = task.progress]]
    /\ UNCHANGED <<tasksFile, pc, phase, tasks, exc, results, expected>>
    /\ TaskFrame

TaskNext ==
    \E t \in TaskIds :
        \/ start_job_search(t)
        \/ store_read(t)
        \/ write_tasks_open(t)
        \/ write_tasks_dump(t)
        \/ mk_airtable(t)
        \/ run_pipeline(t)
        \/ get_search_status(t)

\* ------------------------------------------------------------------------
\* canonicalize_url (utils/utils.py) over urllib.parse
\* ------------------------------------------------------------------------
\* A Python value that is None or a str; a str is a sequence of characters
NoneStr == [null |-> TRUE, s |-> <<>>]
Str(s) == [null |-> FALSE, s |-> s]

Letters == {"a", "h", "t", "p"}
UrlChars == {"a", ":", "/", "?", "#", ";"}
HttpPrefix == <<"h", "t", "t", "p", ":">>

\* urllib.parse.scheme_chars, uses_netloc, uses_params, as far as the
\* alphabet spells them
scheme_chars == Letters
uses_netloc == {<<>>, <<"h", "t", "t", "p">>}
uses_params == {<<>>, <<"h", "t", "t", "p">>}

\* s[i:] and s[:i] with Python's 0-based index i; a slice stops at the end
\* of the string
From(s, i) == IF i >= Len(s) THEN <<>> ELSE SubSeq(s, i + 1, Len(s))
UpTo(s, i) == IF i >= Len(s) THEN s ELSE SubSeq(s, 1, i)

Contains(s, c) == \E i \in 1..Len(s) : s[i] = c

\* str.find(c, start): 0-based index of the first c at or after start, else -1
find(s, c, start) ==
    LET hits == {i \in 0..(Len(s) - 1) : i >= start /\ s[i + 1] = c}
    IN  IF hits = {} THEN -1 ELSE CHOOSE i \in hits : \A j \in hits : i <= j

\* str.rfind(c)
rfind(s, c) ==
    LET hits == {i \in 0..(Len(s) - 1) : s[i + 1] = c}
    IN  IF hits = {} THEN -1 ELSE CHOOSE i \in hits : \A j \in hits : i >= j

\* str.rstrip('/')
RECURSIVE rstrip(_)
rstrip(s) ==
    IF s # <<>> /\ s[Len(s)] = "/" THEN rstrip(UpTo(s, Len(s) - 1)) ELSE s

\* urllib.parse._splitnetloc(url, 2): the netloc ends at the first of / ? #
splitnetloc(u) ==
    LET ends == {i \in 2..(Len(u) - 1) : u[i + 1] \in {"/", "?", "#"}}
        delim == IF ends = {} THEN Len(u)
                 ELSE CHOOSE i \in ends : \A j \in ends : i <= j
    IN  [netloc |-> SubSeq(u, 3, delim), rest |-> From(u, delim)]

\* urlsplit, the scheme: url[:i] when it starts with a letter and holds
\* scheme characters only
split_scheme(u) ==
    LET i == find(u, ":", 0) IN
    IF i > 0 /\ u[1] \in Letters /\ (\A k \in 1..i : u[k] \in scheme_chars)
    THEN [scheme |-> UpTo(u, i), rest |-> From(u, i + 1)]
    ELSE [scheme |-> <<>>, rest |-> u]

\* urlsplit, the netloc: only when url[:2] == '//'
split_netloc(r) ==
    IF UpTo(r.rest, 2) = <<"/", "/">>
    THEN [scheme |-> r.scheme, netloc |-> splitnetloc(r.rest).netloc,
          rest |-> splitnetloc(r.rest).rest]
    ELSE [scheme |-> r.scheme, netloc |-> <<>>, rest |-> r.rest]

\* urlsplit, the fragment: url.split('#', 1) when '#' is in url
split_fragment(r) ==
    IF Contains(r.rest, "#")
    THEN [scheme |-> r.scheme, netloc |-> r.netloc,
          rest |-> UpTo(r.rest, find(r.rest, "#", 0)),
          fragment |-> From(r.rest, find(r.rest, "#", 0) + 1)]
    ELSE [scheme |-> r.scheme, netloc |-> r.netloc, rest |-> r.rest,
          fragment |-> <<>>]

\* urlsplit, the query: url.split('?', 1) when '?' is in url
split_query(r) ==
    IF Contains(r.rest, "?")
    THEN [scheme |-> r.scheme, netloc |-> r.netloc,
          path |-> UpTo(r.rest, find(r.rest, "?", 0)),
          query |-> From(r.rest, find(r.rest, "?", 0) + 1),
          fragment |-> r.fragment]
    ELSE [scheme |-> r.scheme, netloc |-> r.netloc, path |-> r.rest,
          query |-> <<>>, fragment |-> r.fragment]

\* urllib.parse.urlsplit
urlsplit(u) == split_query(split_fragment(split_netloc(split_scheme(u))))

\* urllib.parse._splitparams
splitparams(u) ==
    LET i == IF Contains(u, "/") THEN find(u, ";", rfind(u, "/"))
             ELSE find(u, ";", 0)
    IN  IF i < 0 THEN [path |-> u, params |-> <<>>]
        ELSE [path |-> UpTo(u, i), params |-> From(u, i + 1)]

\* ParseResult(scheme, netloc, url, params, query, fragment)
ParseResult(r, sp) ==
    [scheme |-> r.scheme, netloc |-> r.netloc, path |-> sp.path,
     params |-> sp.params, query |-> r.query, fragment |-> r.fragment]

\* urlparse on the result of urlsplit
with_params(r) ==
    IF r.scheme \in uses_params /\ Contains(r.path, ";")
    THEN ParseResult(r, splitparams(r.path))
    ELSE ParseResult(r, [path |-> r.path, params |-> <<>>])

\* urllib.parse.urlparse
urlparse(u) == with_params(urlsplit(u))

\* urlunsplit: '//' + netloc + url, with a '/' before a relative url
with_netloc(c, u) ==
    IF c.netloc # <<>>
         \/ (c.scheme # <<>> /\ c.scheme \in uses_netloc
               /\ UpTo(u, 2) # <<"/", "/">>)
    THEN <<"/", "/">> \o c.netloc
           \o (IF u # <<>> /\ u[1] # "/" THEN <<"/">> \o u ELSE u)
    ELSE u

\* urlunsplit: scheme + ':' + url, url + '?' + query, url + '#' + fragment
with_rest(c, u) ==
    (IF c.scheme # <<>> THEN c.scheme \o <<":">> ELSE <<>>) \o u
      \o (IF c.query # <<>> THEN <<"?">> \o c.query ELSE <<>>)
      \o (IF c.fragment # <<>> THEN <<"#">> \o c.fragment ELSE <<>>)

\* urllib.parse.urlunparse over urlunsplit
urlunparse(c) ==
    with_rest(c, with_netloc(c, IF c.params # <<>>
                                THEN c.path \o <<";">> \o c.params
                                ELSE c.path))

\* urlunparse((parts.scheme, parts.netloc, parts.path, '', '', ''))
clean_parts(parts) ==
    [scheme |-> parts.scheme, netloc |-> parts.netloc, path |-> parts.path,
     params |-> <<>>, query |-> <<>>, fragment |-> <<>>]

canonicalize_url(v) ==
    IF v.null \/ v.s = <<>> THEN v
    ELSE Str(rstrip(urlunparse(clean_parts(urlparse(v.s)))))

\* All strings over UrlChars of length at most n
StringsUpTo(n) == UNION {[1..k -> UrlChars] : k \in 0..n}

\* The URLs canonicalize_url is applied to: None, and relative or http
\* URLs with every combination of the delimiters
UrlInputs ==
    {NoneStr} \cup {Str(s) : s \in StringsUpTo(MaxUrlLen)}
              \cup {Str(HttpPrefix \o s) : s \in StringsUpTo(MaxUrlLen)}

UrlIdle ==
    /\ url = NoneStr
    /\ canon = NoneStr
    /\ canon2 = NoneStr
    /\ urlPc = "off"

UrlInit ==
    /\ url \in UrlInputs
    /\ canon = NoneStr
    /\ canon2 = NoneStr
    /\ urlPc = "input"

\* job_url = canonicalize_url(job_data.get("job_url"))
canonicalize_once ==
    /\ urlPc = "input"
    /\ canon' = canonicalize_url(url)
    /\ urlPc' = "once"
    /\ UNCHANGED <<url, canon2>>
    /\ UrlFrame

\* canonicalize_url(link) for a link that is itself a canonicalized URL
canonicalize_twice ==
    /\ urlPc = "once"
    /\ canon2' = canonicalize_url(canon)
    /\ urlPc' = "twice"
    /\ UNCHANGED <<url, canon>>
    /\ UrlFrame

UrlNext == canonicalize_once \/ canonicalize_twice

\* ------------------------------------------------------------------------
\* ContentCleaner.clean_html (utils/content_cleaner.py) over BeautifulSoup
\* ------------------------------------------------------------------------
\* A document is a sequence of tokens: a visible character, a blank, a line
\* break, or one whole tag
HtmlTokens == {"x", " ", "\n", "<p>", "</p>", "<a>", "</a>"}
TagTokens == {"<p>", "</p>", "<a>", "</a>"}
Whitespace == {" ", "\n"}

\* soup(['header', 'footer', 'nav', 'script', 'style', 'a']), as far as the
\* tokens spell them
UnwantedTags == {"a"}

MinOf(S) == CHOOSE i \in S : \A j \in S : i <= j
MaxOf(S) == CHOOSE i \in S : \A j \in S : i >= j

\* str.strip()
strip(s) ==
    LET solid == {i \in 1..Len(s) : s[i] \notin Whitespace}
    IN  IF solid = {} THEN <<>> ELSE SubSeq(s, MinOf(solid), MaxOf(solid))

\* The tree builder on an end tag: close up to the innermost open element of
\* that name, ignore the tag when there is none
pop_to_tag(stack, name) ==
    LET open == {k \in 1..Len(stack) : stack[k].name = name}
    IN  IF open = {} THEN stack ELSE UpTo(stack, MaxOf(open) - 1)

\* The open elements after token i
after_token(stack, tok, i) ==
    CASE tok = "<p>" -> Append(stack, [name |-> "p", id |-> i])
      [] tok = "<a>" -> Append(stack, [name |-> "a", id |-> i])
      [] tok = "</p>" -> pop_to_tag(stack, "p")
      [] tok = "</a>" -> pop_to_tag(stack, "a")
      [] OTHER -> stack

\* BeautifulSoup(html, 'html.parser'): for each token the elements it is
\* inside of; an element left open ends with the document
RECURSIVE parse(_, _, _, _)
parse(doc, i, stack, acc) ==
    IF i > Len(doc) THEN acc
    ELSE parse(doc, i + 1, after_token(stack, doc[i], i), Append(acc, stack))

\* element.decompose() of every unwanted element: what was inside one is gone
decomposed(tree, i) ==
    \E k \in 1..Len(tree[i]) : tree[i][k].name \in UnwantedTags

\* Token i starts a text node; the node runs to the next tag
starts_string(doc, i) ==
    doc[i] \notin TagTokens /\ (i = 1 \/ doc[i - 1] \in TagTokens)

string_at(doc, i) ==
    LET tags == {j \in i..Len(doc) : doc[j] \in TagTokens}
    IN  SubSeq(doc, i, IF tags = {} THEN Len(doc) ELSE MinOf(tags) - 1)

\* A string of whitespace only is kept as one line break or one blank
navigable_string(str) ==
    IF \A k \in 1..Len(str) : str[k] \in Whitespace
    THEN (IF Contains(str, "\n") THEN <<"\n">> ELSE <<" ">>)
    ELSE str

\* get_text of element elem (0: the whole soup), with or without strip=True
RECURSIVE get_text(_, _, _, _, _, _)
get_text(doc, tree, elem, stripped, i, acc) ==
    IF i > Len(doc) THEN acc
    ELSE IF /\ starts_string(doc, i)
            /\ ~decomposed(tree, i)
            /\ (elem = 0 \/ \E k \in 1..Len(tree[i]) : tree[i][k].id = elem)
    THEN get_text(doc, tree, elem, stripped, i + 1,
                  acc \o (IF stripped THEN strip(string_at(doc, i))
                          ELSE navigable_string(string_at(doc, i))))
    ELSE get_text(doc, tree, elem, stripped, i + 1, acc)

\* soup.find_all('p')
paragraphs(doc, tree) ==
    {i \in 1..Len(doc) : doc[i] = "<p>" /\ ~decomposed(tree, i)}

\* sep.join(items) built one item at a time; empty items are left out
joined(acc, sep, item) ==
    IF item = <<>> THEN acc
    ELSE IF acc = <<>> THEN item
    ELSE acc \o sep \o item

\* '\n\n'.join(p.get_text(strip=True) for p in paragraphs if ...)
RECURSIVE join_paragraphs(_, _, _, _)
join_paragraphs(doc, tree, i, acc) ==
    IF i > Len(doc) THEN acc
    ELSE IF i \in paragraphs(doc, tree)
    THEN join_paragraphs(doc, tree, i + 1,
             joined(acc, <<"\n", "\n">>, get_text(doc, tree, i, TRUE, 1, <<>>)))
    ELSE join_paragraphs(doc, tree, i + 1, acc)

\* '\n'.join(line.strip() for line in text.splitlines() if line.strip())
RECURSIVE join_lines(_, _, _, _)
join_lines(text, i, line, acc) ==
    IF i > Len(text) THEN joined(acc, <<"\n">>, strip(line))
    ELSE IF text[i] = "\n"
    THEN join_lines(text, i + 1, <<>>, joined(acc, <<"\n">>, strip(line)))
    ELSE join_lines(text, i + 1, Append(line, text[i]), acc)

\* The try block of clean_html on a document that parses
extract_text(doc) ==
    LET tree == parse(doc, 1, <<>>, <<>>)
    IN  IF paragraphs(doc, tree) # {}
        THEN join_paragraphs(doc, tree, 1, <<>>)
        ELSE join_lines(get_text(doc, tree, 0, FALSE, 1, <<>>), 1, <<>>, <<>>)

\* All documents of at most n tokens
Documents(n) == UNION {[1..k -> HtmlTokens] : k \in 0..n}

\* What the pipeline hands to clean_html: a description, or None when the
\* posting has none
HtmlInputs == {NoneStr} \cup {Str(doc) : doc \in Documents(MaxHtmlLen)}

CleanIdle ==
    /\ html_content = NoneStr
    /\ max_length = 1
    /\ cleaned = NoneStr
    /\ cleanPc = "off"

CleanInit ==
    /\ html_content \in HtmlInputs
    /\ max_length \in 1..MaxMaxLength
    /\ cleaned = NoneStr
    /\ cleanPc = "input"

\* clean_html: BeautifulSoup rejects None (and may reject a document) with an
\* exception; the handler then slices html_content, which raises again on None
clean_html ==
    /\ cleanPc = "input"
    /\ \E parsed \in BOOLEAN :
         IF parsed /\ ~html_content.null
         THEN /\ cleaned' = Str(UpTo(extract_text(html_content.s), max_length))
              /\ cleanPc' = "returned"
         ELSE IF ~html_content.null
         THEN /\ cleaned' = Str(UpTo(html_content.s, max_length))
              /\ cleanPc' = "returned"
         ELSE /\ cleaned' = NoneStr
              /\ cleanPc' = "raised"
    /\ UNCHANGED <<html_content, max_length>>
    /\ CleanFrame

CleanNext == clean_html

\* ------------------------------------------------------------------------
\* Scraping phase of JobProcessor (job_processing/core.py) against the
\* record store (data_store/airtable_manager.py)
\* ------------------------------------------------------------------------
\* sources of process_jobs
Sources == {"LinkedIn", "Seek", "Additional Sources"}

\* The job_url values a scraper can return: one posting with and without a
\* tracking query string, another posting, and a card without a link
ScrapedUrls ==
    {Str(<<"a">>), Str(<<"a", "?", "a">>), Str(<<"/", "a">>), Str(<<>>)}

\* AirtableManager.get_existing_job_links: every stored 'Job Link', or the
\* empty set when the fetch fails
get_existing_job_links(ok) ==
    IF ok THEN {rec.link : rec \in table} ELSE {}

\* AirtableManager.job_exists: EQ(Field("Job Link"), job_link) has a match
job_exists(job_link) == \E rec \in table : rec.link = job_link

\* 'Job Link' of the record a source creates: normalize_job_data and
\* normalize_seek_job_data copy the scraped job_url, _process_additional_sources
\* overwrites the link with the canonical URL
JobLink(s) ==
    IF s = "Additional Sources" THEN job_url[s] ELSE job_data[s]

\* `not job_url`
Falsy(v) == v.null \/ v.s = <<>>

\* `if not job_url or job_url in existing_links: continue`
skipped(s, url_) == Falsy(url_) \/ url_ \in existing_links[s]

PipeIdle ==
    /\ table = {}
    /\ runNo = 0
    /\ srcPc = [s \in Sources |-> "off"]
    /\ existing_links = [s \in Sources |-> {}]
    /\ job_data = [s \in Sources |-> NoneStr]
    /\ job_url = [s \in Sources |-> NoneStr]
    /\ left = [s \in Sources |-> 0]
    /\ budget = 0
    /\ new_jobs = [s \in Sources |-> 0]

PipeInit ==
    /\ table = {}
    /\ runNo = 1
    /\ srcPc = [s \in Sources |-> "start"]
    /\ existing_links = [s \in Sources |-> {}]
    /\ job_data = [s \in Sources |-> NoneStr]
    /\ job_url = [s \in Sources |-> NoneStr]
    /\ left = [s \in Sources |-> 0]
    /\ budget = MaxJobs
    /\ new_jobs = [s \in Sources |-> 0]

\* Head of a source task up to its loop: the existing links are fetched and
\* canonicalized, the scraper returns job_list (n postings).  Seek and the
\* additional sources return 0 at once when job_list is empty.
begin_source(s) ==
    /\ srcPc[s] = "start"
    /\ \E ok \in BOOLEAN, n \in 0..budget :
         /\ left' = [left EXCEPT ![s] = n]
         /\ budget' = budget - n
         /\ IF s # "LinkedIn" /\ n = 0
            THEN /\ srcPc' = [srcPc EXCEPT ![s] = "done"]
                 /\ UNCHANGED existing_links
            ELSE /\ srcPc' = [srcPc EXCEPT ![s] = "loop"]
                 /\ existing_links' = [existing_links EXCEPT ![s] =
                        {canonicalize_url(link) : link \in get_existing_job_links(ok)}]
    /\ new_jobs' = [new_jobs EXCEPT ![s] = 0]
    /\ UNCHANGED <<table, runNo, job_data, job_url>>
    /\ PipeFrame

\* The posting taken from job_list is handled up to the store check, or
\* skipped
take_job(s, raw, url_) ==
    IF skipped(s, url_)
    THEN UNCHANGED <<job_data, job_url, srcPc>>
    ELSE /\ job_data' = [job_data EXCEPT ![s] = raw]
         /\ job_url' = [job_url EXCEPT ![s] = url_]
         /\ srcPc' = [srcPc EXCEPT ![s] = "exists"]

\* One turn of the loop up to the store check: the next posting of job_list,
\* job_url = canonicalize_url(job_data.get("job_url")), the check against
\* existing_links
next_job(s) ==
    /\ srcPc[s] = "loop"
    /\ left[s] > 0
    /\ \E raw \in ScrapedUrls : take_job(s, raw, canonicalize_url(raw))
    /\ left' = [left EXCEPT ![s] = @ - 1]
    /\ UNCHANGED <<table, runNo, existing_links, budget, new_jobs>>
    /\ PipeFrame

\* if self.airtable.job_exists(job_url): existing_links.add(job_url); continue
check_job_exists(s) ==
    /\ srcPc[s] = "exists"
    /\ IF job_exists(job_url[s])
       THEN /\ existing_links' = [existing_links EXCEPT ![s] = @ \cup {job_url[s]}]
            /\ srcPc' = [srcPc EXCEPT ![s] = "loop"]
            /\ job_data' = [job_data EXCEPT ![s] = NoneStr]
            /\ job_url' = [job_url EXCEPT ![s] = NoneStr]
       ELSE /\ srcPc' = [srcPc EXCEPT ![s] = "create"]
            /\ UNCHANGED <<existing_links, job_data, job_url>>
    /\ UNCHANGED <<table, runNo, left, budget, new_jobs>>
    /\ PipeFrame

\* if self.airtable.create_job_record(normalized, ...): new_jobs += 1
\* create_job_record returns None when the store call fails
create_job_record(s) ==
    /\ srcPc[s] = "create"
    /\ \E ok \in BOOLEAN :
         IF ok
         THEN /\ table' = table \cup
                    {[link |-> JobLink(s), run |-> runNo,
                      source |-> s, n |-> new_jobs[s]]}
              /\ new_jobs' = [new_jobs EXCEPT ![s] = @ + 1]
         ELSE UNCHANGED <<table, new_jobs>>
    /\ srcPc' = [srcPc EXCEPT ![s] = "loop"]
    /\ job_data' = [job_data EXCEPT ![s] = NoneStr]
    /\ job_url' = [job_url EXCEPT ![s] = NoneStr]
    /\ UNCHANGED <<runNo, existing_links, left, budget>>
    /\ PipeFrame

\* return new_jobs
return_new_jobs(s) ==
    /\ srcPc[s] = "loop"
    /\ left[s] = 0
    /\ srcPc' = [srcPc EXCEPT ![s] = "done"]
    /\ existing_links' = [existing_links EXCEPT ![s] = {}]
    /\ UNCHANGED <<table, runNo, job_data, job_url, left, budget, new_jobs>>
    /\ PipeFrame

\* Every future of process_jobs has completed; the next run starts later
next_run ==
    /\ \A s \in Sources : srcPc[s] = "done"
    /\ runNo < MaxRuns
    /\ runNo' = runNo + 1
    /\ srcPc' = [s \in Sources |-> "start"]
    /\ existing_links' = [s \in Sources |-> {}]
    /\ job_data' = [s \in Sources |-> NoneStr]
    /\ job_url' = [s \in Sources |-> NoneStr]
    /\ left' = [s \in Sources |-> 0]
    /\ budget' = MaxJobs
    /\ new_jobs' = [s \in Sources |-> 0]
    /\ UNCHANGED table
    /\ PipeFrame

PipeNext ==
    \/ \E s \in Sources :
          \/ begin_source(s)
          \/ next_job(s)
          \/ check_job_exists(s)
          \/ create_job_record(s)
          \/ return_new_jobs(s)
    \/ next_run

\* ------------------------------------------------------------------------
\* JobMatcher.calculate_match_score (utils/matcher.py)
\* ------------------------------------------------------------------------
\* Scores are Python floats, written in thousandths: a finite number, nan,
\* inf or -inf
Num(v) == [k |-> "num", v |-> v]
NaN == [k |-> "nan", v |-> 0]
PosInf == [k |-> "inf", v |-> 0]
NegInf == [k |-> "-inf", v |-> 0]

\* a > b on floats; every comparison with nan is False
gt(a, b) ==
    /\ a.k # "nan"
    /\ b.k # "nan"
    /\ \/ a.k = "inf" /\ b.k # "inf"
       \/ b.k = "-inf" /\ a.k # "-inf"
       \/ a.k = "num" /\ b.k = "num" /\ a.v > b.v

\* The builtins max(a, b) and min(a, b): the first argument unless the
\* second is greater (smaller)
py_max(a, b) == IF gt(b, a) THEN b ELSE a
py_min(a, b) == IF gt(a, b) THEN b ELSE a

\* a * wa + b * wb with the weights in tenths
weighted(a, wa, b, wb) ==
    IF a.k = "nan" \/ b.k = "nan" THEN NaN
    ELSE IF a.k # "num" THEN a
    ELSE IF b.k # "num" THEN b
    ELSE Num((a.v * wa + b.v * wb) \div 10)

\* job_desc and cv_text: not strings, blank, or text
Texts == {"not_str", "blank", "text"}

\* cosine_similarity of two TF-IDF vectors, in hundredths; -1 when
\* fit_transform raises (empty vocabulary)
Similarities == {-1, 0, 1, 50, 82, 100}

\* basic_match_score: round(similarity * 10, 2), 0 for empty text and on any
\* exception
basic_match_score(t, sim) ==
    IF t # "text" \/ sim < 0 THEN Num(0) ELSE Num(sim * 100)

\* response['score'] after json.loads: a number, NaN, Infinity, -Infinity,
\* null, or a string that float() rejects
ScoreValues ==
    {Num(-500), Num(0), Num(7500), Num(10000), Num(12000), NaN, PosInf, NegInf,
     [k |-> "null", v |-> 0], [k |-> "text", v |-> 0]}

Lists == {<<>>, <<"x">>}

\* What llm_client.complete comes to: it raises or times out, it returns no
\* choices or no content, content without JSON, or a JSON object
LlmOutcomes ==
    {[kind |-> k, has_score |-> FALSE, score |-> Num(0), reasons |-> <<>>,
      improvement_suggestions |-> <<>>] :
        k \in {"raise", "no_choices", "no_content", "unparsable"}}
    \cup [kind : {"json"}, has_score : BOOLEAN, score : ScoreValues,
          reasons : Lists, improvement_suggestions : Lists]

NoResult == [none |-> TRUE, score |-> Num(0), reasons |-> <<>>,
             suggestions |-> <<>>]

\* _parse_llm_response: None without JSON, without 'score' or when float()
\* raises; the score is min(max(float(score), 0), 10)
parse_llm_response(response) ==
    IF response.kind # "json" \/ ~response.has_score
         \/ response.score.k \in {"null", "text"}
    THEN NoResult
    ELSE [none |-> FALSE,
          score |-> py_min(py_max(response.score, Num(0)), Num(10000)),
          reasons |-> response.reasons,
          suggestions |-> response.improvement_suggestions]

\* _llm_evaluation: None for blank input, when the call raises and for an
\* empty response; job_desc.strip() of a non-string raises out of it
llm_evaluation(t, response) ==
    IF t = "not_str" THEN [raised |-> TRUE, result |-> NoResult]
    ELSE IF t = "blank" \/ response.kind \in {"raise", "no_choices", "no_content"}
    THEN [raised |-> FALSE, result |-> NoResult]
    ELSE [raised |-> FALSE, result |-> parse_llm_response(response)]

\* default_result
default_result(tfidf_score) ==
    [none |-> FALSE, score |-> tfidf_score, reasons |-> <<>>,
     suggestions |-> <<>>]

\* The try block of calculate_match_score with use_llm, where an exception
\* of the evaluation is not caught
blended_uncaught(tfidf_score, ev) ==
    IF ev.raised
    THEN [raised |-> TRUE, score |-> tfidf_score, analysis |-> NoResult]
    ELSE IF ev.result.none
    THEN [raised |-> FALSE, score |-> tfidf_score,
          analysis |-> default_result(tfidf_score)]
    ELSE [raised |-> FALSE,
          score |-> weighted(tfidf_score, 1, ev.result.score, 9),
          analysis |-> ev.result]

\* The try block of calculate_match_score with use_llm: the blend when the
\* evaluation has a result, the lexical score when it has none or raised
blended(tfidf_score, ev) ==
    IF ev.raised \/ ev.result.none
    THEN [raised |-> FALSE, score |-> tfidf_score,
          analysis |-> default_result(tfidf_score)]
    ELSE [raised |-> FALSE,
          score |-> weighted(tfidf_score, 1, ev.result.score, 9),
          analysis |-> ev.result]

ScoreIdle ==
    /\ texts = "text"
    /\ similarity = 0
    /\ llm = CHOOSE o \in LlmOutcomes : o.kind = "raise"
    /\ match = [raised |-> FALSE, score |-> Num(0), analysis |-> NoResult]
    /\ scorePc = "off"

ScoreInit ==
    /\ texts \in Texts
    /\ similarity \in Similarities
    /\ llm \in LlmOutcomes
    /\ match = [raised |-> FALSE, score |-> Num(0), analysis |-> NoResult]
    /\ scorePc = "input"

\* score, analysis = self.matcher.calculate_match_score(job_desc, cv_text)
calculate_match_score ==
    /\ scorePc = "input"
    /\ match' = blended(basic_match_score(texts, similarity),
                        llm_evaluation(texts, llm))
    /\ scorePc' = IF match'.raised THEN "raised" ELSE "returned"
    /\ UNCHANGED <<texts, similarity, llm>>
    /\ ScoreFrame

ScoreNext == calculate_match_score

\* ------------------------------------------------------------------------
\* One run of JobProcessor.process_jobs (job_processing/core.py)
\* ------------------------------------------------------------------------
\* 'Job Link' of the postings the scrapers can find; update_cv_info addresses
\* a record by it
JobLinks == 1..MaxPostings

\* Config.JOB_MATCH_THRESHOLD, in thousandths
JobMatchThreshold == 7000

\* a > b in the place of a >= b
ge_strict(a, b) == gt(a, b)

\* a >= b on floats
ge(a, b) == a.k # "nan" /\ b.k # "nan" /\ ~gt(b, a)

\* What calculate_match_score can return for a posting
MatchScores == {Num(4000), Num(7000), Num(8200), NaN}
Analyses == {[reasons |-> l, suggestions |-> l] : l \in Lists}

NoRecord == [stored |-> FALSE, data |-> 0, score |-> Num(0),
             scored |-> FALSE, cv_link |-> "", reasons |-> <<>>,
             suggestions |-> <<>>]

\* AirtableManager.create_job_record: 'Matching Score' 0, 'CV Link' '', and
\* as data the title, company, location, description and date that the
\* scraper found for the posting of 'Job Link' l
NewRecord(l) == [stored |-> TRUE, data |-> l, score |-> Num(0),
                 scored |-> FALSE, cv_link |-> "", reasons |-> <<>>,
                 suggestions |-> <<>>]

NoPosting == [link |-> 0, score |-> Num(0),
              analysis |-> [reasons |-> <<>>, suggestions |-> <<>>]]

\* sum(results.values())
RECURSIVE SumOver(_, _)
SumOver(f, S) ==
    IF S = {} THEN 0
    ELSE LET x == CHOOSE y \in S : TRUE IN f[x] + SumOver(f, S \ {x})

\* AirtableManager.get_unprocessed_jobs: the records without a 'CV Link', in
\* table order; the empty list when the fetch fails
RECURSIVE unprocessed(_, _)
unprocessed(tbl, i) ==
    IF i > MaxPostings THEN <<>>
    ELSE IF tbl[i].stored /\ tbl[i].cv_link = ""
    THEN <<i>> \o unprocessed(tbl, i + 1)
    ELSE unprocessed(tbl, i + 1)

\* update_cv_info, were it to write the score only together with a link
update_cv_info_with_link(tbl, job_link, score, cv_url, analysis, ok) ==
    IF ok /\ tbl[job_link].stored /\ cv_url # ""
    THEN [tbl EXCEPT ![job_link] =
             [@ EXCEPT !.score = score, !.scored = TRUE, !.cv_link = cv_url,
                       !.reasons = analysis.reasons,
                       !.suggestions = analysis.suggestions]]
    ELSE tbl

\* update_cv_info, were it to write the whole record from the fields the
\* matching phase fetched ("Job Title", "Job Description", "Job Link",
\* "Company"): location and date are lost
update_cv_info_whole(tbl, job_link, score, cv_url, analysis, ok) ==
    IF ok /\ tbl[job_link].stored
    THEN [tbl EXCEPT ![job_link] =
             [stored |-> TRUE, data |-> 0, score |-> score,
              scored |-> TRUE, cv_link |-> cv_url,
              reasons |-> analysis.reasons,
              suggestions |-> analysis.suggestions]]
    ELSE tbl

\* AirtableManager.update_cv_info: update_fields holds 'Matching Score',
\* 'CV Link', 'Match Reasons' and 'Match Suggestions' and nothing else;
\* nothing is written when the record is not found or the call fails
update_cv_info(tbl, job_link, score, cv_url, analysis, ok) ==
    IF ok /\ tbl[job_link].stored
    THEN [tbl EXCEPT ![job_link] =
             [@ EXCEPT !.score = score, !.scored = TRUE, !.cv_link = cv_url,
                       !.reasons = analysis.reasons,
                       !.suggestions = analysis.suggestions]]
    ELSE tbl

\* A call, as the log keeps it; ok: whether a store update returned a record
Event(op, link, score, ok) ==
    [op |-> op, link |-> link, score |-> score, ok |-> ok]

RunIdle ==
    /\ runPhase = "off"
    /\ taskPc = [s \in Sources |-> "done"]
    /\ counts = [s \in Sources |-> 0]
    /\ failedSrc = [s \in Sources |-> FALSE]
    /\ run_results = [s \in Sources |-> 0]
    /\ total_new = 0
    /\ postings = [l \in JobLinks |-> NoRecord]
    /\ matchPc = "off"
    /\ unprocessed_jobs = <<>>
    /\ pos = 1
    /\ cur = NoPosting
    /\ jobs_with_cv = <<>>
    /\ returned = <<>>
    /\ log = <<>>
    /\ matchStarts = 0

\* process_jobs has submitted the three source tasks to the pool
RunInit ==
    /\ runPhase = "scraping"
    /\ taskPc = [s \in Sources |-> "running"]
    /\ counts = [s \in Sources |-> 0]
    /\ failedSrc = [s \in Sources |-> FALSE]
    /\ run_results = [s \in Sources |-> 0]
    /\ total_new = 0
    /\ postings = [l \in JobLinks |-> NoRecord]
    /\ matchPc = "off"
    /\ unprocessed_jobs = <<>>
    /\ pos = 1
    /\ cur = NoPosting
    /\ jobs_with_cv = <<>>
    /\ returned = <<>>
    /\ log = <<>>
    /\ matchStarts = 0

\* The records an earlier run of process_jobs can have left in the store:
\* none, a record that was never matched, a record scored below the
\* threshold (its 'CV Link' stays empty), a record with its document
PriorRecords(l) ==
    {NoRecord,
     NewRecord(l),
     [NewRecord(l) EXCEPT !.score = Num(4000), !.scored = TRUE],
     [NewRecord(l) EXCEPT !.score = Num(8200), !.scored = TRUE,
                          !.cv_link = "url"]}

\* process_jobs has submitted the three source tasks to the pool, and the
\* store holds what earlier runs have left
RerunInit ==
    /\ runPhase = "scraping"
    /\ taskPc = [s \in Sources |-> "running"]
    /\ counts = [s \in Sources |-> 0]
    /\ failedSrc = [s \in Sources |-> FALSE]
    /\ run_results = [s \in Sources |-> 0]
    /\ total_new = 0
    /\ postings \in [JobLinks -> UNION {PriorRecords(l) : l \in JobLinks}]
    /\ \A l \in JobLinks : postings[l] \in PriorRecords(l)
    /\ matchPc = "off"
    /\ unprocessed_jobs = <<>>
    /\ pos = 1
    /\ cur = NoPosting
    /\ jobs_with_cv = <<>>
    /\ returned = <<>>
    /\ log = <<>>
    /\ matchStarts = 0

\* A source task creates the record of a posting that is not stored yet:
\* new_jobs += 1
source_adds(s) ==
    /\ runPhase = "scraping"
    /\ taskPc[s] = "running"
    /\ \E l \in JobLinks :
         /\ ~postings[l].stored
         /\ postings' = [postings EXCEPT ![l] = NewRecord(l)]
    /\ counts' = [counts EXCEPT ![s] = @ + 1]
    /\ UNCHANGED <<runPhase, taskPc, failedSrc, run_results, total_new,
                   matchPc, unprocessed_jobs, pos, cur, jobs_with_cv, returned,
                   log, matchStarts>>
    /\ RunFrame

\* A source task raises and the exception leaves process_jobs
source_fails_run(s) ==
    /\ runPhase = "scraping"
    /\ taskPc[s] = "running"
    /\ runPhase' = "raised"
    /\ failedSrc' = [failedSrc EXCEPT ![s] = TRUE]
    /\ UNCHANGED <<taskPc, counts, run_results, total_new, postings, matchPc,
                   unprocessed_jobs, pos, cur, jobs_with_cv, returned, log,
                   matchStarts>>
    /\ RunFrame

\* A source task raises (scraper, job_exists, clean_html): the except clause
\* of the task logs it and returns 0; results[name] = 0
source_fails(s) ==
    /\ runPhase = "scraping"
    /\ taskPc[s] = "running"
    /\ taskPc' = [taskPc EXCEPT ![s] = "done"]
    /\ failedSrc' = [failedSrc EXCEPT ![s] = TRUE]
    /\ run_results' = [run_results EXCEPT ![s] = 0]
    /\ UNCHANGED <<runPhase, counts, total_new, postings, matchPc,
                   unprocessed_jobs, pos, cur, jobs_with_cv, returned, log,
                   matchStarts>>
    /\ RunFrame

\* A source task returns new_jobs; results[name] = count
source_returns(s) ==
    /\ runPhase = "scraping"
    /\ taskPc[s] = "running"
    /\ taskPc' = [taskPc EXCEPT ![s] = "done"]
    /\ run_results' = [run_results EXCEPT ![s] = counts[s]]
    /\ UNCHANGED <<runPhase, counts, failedSrc, total_new, postings, matchPc,
                   unprocessed_jobs, pos, cur, jobs_with_cv, returned, log,
                   matchStarts>>
    /\ RunFrame

\* sum_results, were the matching phase entered whatever the total
sum_results_always ==
    /\ runPhase = "scraping"
    /\ \A s \in Sources : taskPc[s] = "done"
    /\ total_new' = SumOver(run_results, Sources)
    /\ runPhase' = "matching"
    /\ matchPc' = "start"
    /\ matchStarts' = matchStarts + 1
    /\ UNCHANGED <<taskPc, counts, failedSrc, run_results, postings,
                   unprocessed_jobs, pos, cur, jobs_with_cv, returned, log>>
    /\ RunFrame

\* The pool has shut down: total_new = sum(results.values()); the matching
\* phase is entered if total_new > 0, else process_jobs returns []
sum_results ==
    /\ runPhase = "scraping"
    /\ \A s \in Sources : taskPc[s] = "done"
    /\ total_new' = SumOver(run_results, Sources)
    /\ IF total_new' > 0
       THEN /\ runPhase' = "matching"
            /\ matchPc' = "start"
            /\ matchStarts' = matchStarts + 1
            /\ UNCHANGED returned
       ELSE /\ runPhase' = "done"
            /\ returned' = <<>>
            /\ UNCHANGED <<matchPc, matchStarts>>
    /\ UNCHANGED <<taskPc, counts, failedSrc, run_results, postings,
                   unprocessed_jobs, pos, cur, jobs_with_cv, log>>
    /\ RunFrame

\* Head of _process_job_matches: load_cv_content (empty when the CV cannot be
\* loaded: return []), then get_unprocessed_jobs
load_cv_and_fetch ==
    /\ runPhase = "matching"
    /\ matchPc = "start"
    /\ \E cv_text \in BOOLEAN, ok \in BOOLEAN :
         IF ~cv_text
         THEN /\ runPhase' = "done"
              /\ matchPc' = "off"
              /\ returned' = jobs_with_cv
              /\ UNCHANGED unprocessed_jobs
         ELSE /\ unprocessed_jobs' = IF ok THEN unprocessed(postings, 1) ELSE <<>>
              /\ matchPc' = "loop"
              /\ UNCHANGED <<runPhase, returned>>
    /\ UNCHANGED <<taskPc, counts, failedSrc, run_results, total_new, postings,
                   pos, cur, jobs_with_cv, log, matchStarts>>
    /\ RunFrame

\* One record of the loop up to the threshold test: calculate_match_score,
\* then update_cv_info(job_link, score, cv_url=None, reasons, suggestions)
score_posting ==
    /\ runPhase = "matching"
    /\ matchPc = "loop"
    /\ pos <= Len(unprocessed_jobs)
    /\ \E score \in MatchScores, analysis \in Analyses, ok \in BOOLEAN :
         /\ cur' = [link |-> unprocessed_jobs[pos], score |-> score,
                    analysis |-> analysis]
         /\ postings' = update_cv_info(postings, unprocessed_jobs[pos], score,
                                       "", analysis, ok)
         /\ IF ge(score, Num(JobMatchThreshold))
            THEN /\ matchPc' = "generate"
                 /\ UNCHANGED pos
            ELSE /\ matchPc' = "loop"
                 /\ pos' = pos + 1
         /\ log' = log \o <<Event("score", cur'.link, score, TRUE),
                            Event("update", cur'.link, score, ok)>>
    /\ UNCHANGED <<runPhase, taskPc, counts, failedSrc, run_results, total_new,
                   unprocessed_jobs, jobs_with_cv, returned, matchStarts>>
    /\ RunFrame

\* What the try block of a record above the threshold comes to, given what
\* generate_targeted_cv does: it raises, it returns None (no PDF, upload
\* failed), or it returns the URL of the upload
attach_cv(outcome, ok) ==
    IF outcome = "raise"
    THEN UNCHANGED <<postings, jobs_with_cv>>
    ELSE /\ postings' = update_cv_info(postings, cur.link, cur.score,
                            IF outcome = "url" THEN "url" ELSE "",
                            cur.analysis, ok)
         /\ IF ok /\ postings[cur.link].stored
            THEN jobs_with_cv' = Append(jobs_with_cv,
                     [link |-> cur.link,
                      cv_url |-> IF outcome = "url" THEN "url" ELSE "None",
                      score |-> cur.score])
            ELSE UNCHANGED jobs_with_cv

\* Where the loop goes on after the try block, were an exception of the
\* generation to leave the loop
resume_at_end(outcome) ==
    IF outcome = "raise" THEN Len(unprocessed_jobs) + 1 ELSE pos + 1

\* Where the loop goes on after the try block: the except clause logs the
\* exception and the loop takes the next record
resume_at(outcome) == pos + 1

\* The record is above the threshold: generate_targeted_cv, update_cv_info
\* with cv_url, jobs_with_cv.append if the update returned a record
generate_targeted_cv ==
    /\ runPhase = "matching"
    /\ matchPc = "generate"
    /\ \E outcome \in {"raise", "none", "url"}, ok \in BOOLEAN :
         /\ attach_cv(outcome, ok)
         /\ log' = log \o
              (IF outcome = "raise"
               THEN <<Event("generate", cur.link, cur.score, TRUE)>>
               ELSE <<Event("generate", cur.link, cur.score, TRUE),
                      Event("attach", cur.link, cur.score, ok)>>)
         /\ pos' = resume_at(outcome)
    /\ matchPc' = "loop"
    /\ UNCHANGED <<runPhase, taskPc, counts, failedSrc, run_results, total_new,
                   unprocessed_jobs, cur, returned, matchStarts>>
    /\ RunFrame

\* return jobs_with_cv
return_jobs ==
    /\ runPhase = "matching"
    /\ matchPc = "loop"
    /\ pos > Len(unprocessed_jobs)
    /\ runPhase' = "done"
    /\ matchPc' = "off"
    /\ returned' = jobs_with_cv
    /\ UNCHANGED <<taskPc, counts, failedSrc, run_results, total_new, postings,
                   unprocessed_jobs, pos, cur, jobs_with_cv, log, matchStarts>>
    /\ RunFrame

RunNext ==
    \/ \E s \in Sources :
          \/ source_adds(s)
          \/ source_fails(s)
          \/ source_returns(s)
    \/ sum_results
    \/ load_cv_and_fetch
    \/ score_posting
    \/ generate_targeted_cv
    \/ return_jobs

\* ------------------------------------------------------------------------
\* check_cookie_health (job_sources/linkedin_cookie_health.py)
\* ------------------------------------------------------------------------
\* CookieStatus
HEALTHY == "healthy"
INVALID == "invalid"
MISSING == "missing"
UNTESTED == "untested"

\* max_age_hours of _is_cache_valid
CacheMaxAgeHours == 24

\* Hours that pass in one step of the clock
TickHours == 12

\* The persisted cookies: none, a file whose info cannot be read, or saved
CookieStates == {"none", "unreadable", "saved"}

\* _load_session_cache: None without a cache file
NoCache == [exists |-> FALSE, is_valid |-> FALSE, age |-> 0]

\* _save_session_cache(is_valid, message): tested_at = now
saved_cache(is_valid) == [exists |-> TRUE, is_valid |-> is_valid, age |-> 0]

\* _is_cache_valid, its bound included
is_cache_valid_inclusive(c) == c.exists /\ c.age <= CacheMaxAgeHours

\* _is_cache_valid: there is a cache and age < timedelta(hours=24)
is_cache_valid(c) == c.exists /\ c.age < CacheMaxAgeHours

NoHealth == [status |-> "none", session_valid |-> FALSE, needs_refresh |-> FALSE]

\* The dict returned without cookies, or without readable cookie info
missing_health ==
    [status |-> MISSING, session_valid |-> FALSE, needs_refresh |-> TRUE]

\* The dict returned without a session test
untested_health ==
    [status |-> UNTESTED, session_valid |-> FALSE, needs_refresh |-> FALSE]

\* The dict of a tested session, were a failed test not to ask for a refresh
tested_health_quiet(is_valid) ==
    [status |-> IF is_valid THEN HEALTHY ELSE INVALID,
     session_valid |-> is_valid,
     needs_refresh |-> FALSE]

\* The dict returned for a tested session: status from is_valid,
\* session_valid = (status == HEALTHY)
tested_health(is_valid) ==
    [status |-> IF is_valid THEN HEALTHY ELSE INVALID,
     session_valid |-> (IF is_valid THEN HEALTHY ELSE INVALID) = HEALTHY,
     needs_refresh |-> ~is_valid]

\* validate_session_for_job has not run
NoVerdict ==
    [cookies |-> "none", atDecide |-> NoCache, outcome |-> "none",
     can_proceed |-> FALSE]

\* The cache file is of no probe, and the cookies are the ones it was made with
NoProbe == [outcome |-> "none", replaced |-> FALSE]

\* How a real probe can end: LinkedInJobScraper() raises, or its
\* has_valid_session is true (the saved cookies were loaded and applied) or
\* false
probe_outcomes(c) ==
    IF c = "saved" THEN {"valid", "invalid", "error"} ELSE {"invalid", "error"}

\* The cache file after a probe, were an error cached as a failure
cache_after_always(outcome, c) == saved_cache(outcome = "valid")

\* The cache file after a probe: _save_session_cache(True, ..) or
\* _save_session_cache(False, ..); an error is not cached
cache_after(outcome, c) ==
    IF outcome = "error" THEN c ELSE saved_cache(outcome = "valid")

\* The probe the cache file is from, after a probe
from_after(outcome, f) ==
    IF outcome = "error" THEN f ELSE [outcome |-> outcome, replaced |-> FALSE]

\* cm.has_cookies(), were it true without a cookie file
has_cookies_always(c) == TRUE

\* cm.has_cookies(): the cookie file exists
has_cookies(c) == c # "none"

\* send_cookie_alert: returns without a message for HEALTHY and UNTESTED,
\* else sends the Telegram message and the email; the number of alerts
send_cookie_alert(h) == IF h.status \in {HEALTHY, UNTESTED} THEN 0 ELSE 1

CookieIdle ==
    /\ cookies = "none"
    /\ cacheFile = NoCache
    /\ ckPc = "off"
    /\ args = [use_session_test |-> TRUE, force_test |-> FALSE, cookies |-> "none"]
    /\ cache = NoCache
    /\ atDecide = NoCache
    /\ probed = FALSE
    /\ basis = FALSE
    /\ health = NoHealth
    /\ callPc = "off"
    /\ caller = [name |-> "none", send_alert |-> FALSE]
    /\ alerts = 0
    /\ verdict = NoVerdict
    /\ lastProbe = "none"
    /\ errBefore = FALSE
    /\ cacheFrom = NoProbe

CookieInit ==
    /\ cookies \in CookieStates
    /\ cacheFile = NoCache
    /\ ckPc = "idle"
    /\ args = [use_session_test |-> TRUE, force_test |-> FALSE, cookies |-> "none"]
    /\ cache = NoCache
    /\ atDecide = NoCache
    /\ probed = FALSE
    /\ basis = FALSE
    /\ health = NoHealth
    /\ callPc = "idle"
    /\ caller = [name |-> "none", send_alert |-> FALSE]
    /\ alerts = 0
    /\ verdict = NoVerdict
    /\ lastProbe = "none"
    /\ errBefore = FALSE
    /\ cacheFrom = NoProbe

\* No entry point is running
CallOver ==
    \/ callPc \in {"idle", "done"}
    \/ callPc = "check" /\ ckPc = "returned"

\* Time passes: the cached result gets older
tick ==
    /\ ckPc # "off"
    /\ cacheFile.exists
    /\ cacheFile.age + TickHours <= MaxAgeHours
    /\ cacheFile' = [cacheFile EXCEPT !.age = @ + TickHours]
    /\ UNCHANGED <<cookies, ckPc, args, cache, atDecide, probed, basis, health>>
    /\ UNCHANGED <<callPc, caller, alerts, verdict, lastProbe, errBefore,
                   cacheFrom>>
    /\ CookieFrame

\* Between two calls the user saves the cookies of a new login
\* (save_cookies), breaks the cookie file or removes it (delete_cookies);
\* the session cache is not touched
set_cookies ==
    /\ ckPc \in {"idle", "returned"}
    /\ CallOver
    /\ \E c \in CookieStates :
          /\ c # cookies \/ c = "saved"
          /\ cookies' = c
          /\ cacheFrom' = IF c = "saved" /\ cacheFile.exists
                          THEN [cacheFrom EXCEPT !.replaced = TRUE]
                          ELSE cacheFrom
    /\ UNCHANGED <<cacheFile, ckPc, args, cache, atDecide, probed, basis, health>>
    /\ UNCHANGED <<callPc, caller, alerts, verdict, lastProbe, errBefore>>
    /\ CookieFrame

\* check_cookie_health up to the choice between the cache and a fresh test:
\* the returns without cookies and without session test, else
\* cache = _load_session_cache()
check_cookie_health(use_session_test, force_test) ==
    /\ ckPc \in {"idle", "returned"}
    /\ args' = [use_session_test |-> use_session_test,
                force_test |-> force_test, cookies |-> cookies]
    /\ probed' = FALSE
    /\ basis' = FALSE
    /\ atDecide' = NoCache
    /\ IF cookies # "saved"
       THEN /\ health' = missing_health
            /\ ckPc' = "returned"
            /\ cache' = NoCache
       ELSE IF ~use_session_test
       THEN /\ health' = untested_health
            /\ ckPc' = "returned"
            /\ cache' = NoCache
       ELSE /\ health' = NoHealth
            /\ ckPc' = "decide"
            /\ cache' = cacheFile
    /\ UNCHANGED <<cookies, cacheFile>>
    /\ CookieFrame

\* if force_test or not _is_cache_valid(max_age_hours=24): a fresh test is
\* needed; else the cached result is used
use_cache_or_test ==
    /\ ckPc = "decide"
    /\ atDecide' = cacheFile
    /\ errBefore' = (lastProbe = "error")
    /\ IF args.force_test \/ ~is_cache_valid(cacheFile)
       THEN /\ ckPc' = "test"
            /\ UNCHANGED <<basis, health>>
       ELSE /\ ckPc' = "returned"
            /\ basis' = cache.is_valid
            /\ health' = tested_health(cache.is_valid)
    /\ UNCHANGED <<cookies, cacheFile, args, cache, probed>>
    /\ UNCHANGED <<callPc, caller, alerts, verdict, lastProbe, cacheFrom>>
    /\ CookieFrame

\* test_cookie_session(force=force_test) and the rest of check_cookie_health:
\* the cached result when not forced and the cache is valid, else a real
\* probe whose result is cached unless the probe raised
test_cookie_session ==
    /\ ckPc = "test"
    /\ IF ~args.force_test /\ is_cache_valid(cacheFile)
       THEN /\ basis' = cacheFile.is_valid
            /\ health' = tested_health(cacheFile.is_valid)
            /\ cache' = cacheFile
            /\ UNCHANGED <<cacheFile, probed, lastProbe, cacheFrom>>
       ELSE \E outcome \in probe_outcomes(cookies) :
              /\ probed' = TRUE
              /\ basis' = (outcome = "valid")
              /\ cacheFile' = cache_after(outcome, cacheFile)
              /\ cache' = cacheFile'
              /\ health' = tested_health(outcome = "valid")
              /\ lastProbe' = outcome
              /\ cacheFrom' = from_after(outcome, cacheFrom)
    /\ ckPc' = "returned"
    /\ UNCHANGED <<cookies, args, atDecide>>
    /\ UNCHANGED <<callPc, caller, alerts, verdict, errBefore>>
    /\ CookieFrame

\* The API asks for the health: check_cookie_health(use_session_test=True,
\* force_test=False) of api/main.py, check_cookie_health() of
\* api/routes/jobs.py, and any other direct call
api_check(use_session_test, force_test) ==
    /\ CallOver
    /\ check_cookie_health(use_session_test, force_test)
    /\ callPc' = "check"
    /\ caller' = [name |-> "check", send_alert |-> FALSE]
    /\ alerts' = 0
    /\ verdict' = NoVerdict
    /\ errBefore' = FALSE
    /\ UNCHANGED <<lastProbe, cacheFrom>>

\* run_cookie_health_check(send_alert, force_test) up to its call
\* check_cookie_health(use_session_test=True, force_test=force_test)
run_cookie_health_check(send_alert, force_test) ==
    /\ CallOver
    /\ check_cookie_health(TRUE, force_test)
    /\ callPc' = "run"
    /\ caller' = [name |-> "run", send_alert |-> send_alert]
    /\ alerts' = 0
    /\ verdict' = NoVerdict
    /\ errBefore' = FALSE
    /\ UNCHANGED <<lastProbe, cacheFrom>>

\* The rest of run_cookie_health_check:
\* if send_alert and health_info['needs_refresh']: send_cookie_alert(health_info)
run_send_alert ==
    /\ callPc = "run"
    /\ ckPc = "returned"
    /\ alerts' = IF caller.send_alert /\ health.needs_refresh
                 THEN send_cookie_alert(health) ELSE 0
    /\ callPc' = "done"
    /\ UNCHANGED <<cookies, cacheFile, ckPc, args, cache, atDecide, probed,
                   basis, health>>
    /\ UNCHANGED <<caller, verdict, lastProbe, errBefore, cacheFrom>>
    /\ CookieFrame

\* validate_session_for_job up to its session test: without cookies it
\* returns (False, "No LinkedIn cookies found. Cannot proceed."); no health
\* check of this call has run yet
validate_session_for_job ==
    /\ CallOver
    /\ ckPc \in {"idle", "returned"}
    /\ caller' = [name |-> "job", send_alert |-> TRUE]
    /\ alerts' = 0
    /\ IF has_cookies(cookies)
       THEN /\ callPc' = "job_test"
            /\ verdict' = [NoVerdict EXCEPT !.cookies = cookies]
       ELSE /\ callPc' = "done"
            /\ verdict' = [NoVerdict EXCEPT !.cookies = cookies]
    /\ ckPc' = "idle"
    /\ args' = [use_session_test |-> TRUE, force_test |-> FALSE, cookies |-> "none"]
    /\ cache' = NoCache
    /\ atDecide' = NoCache
    /\ probed' = FALSE
    /\ basis' = FALSE
    /\ health' = NoHealth
    /\ errBefore' = FALSE
    /\ UNCHANGED <<cookies, cacheFile, lastProbe, cacheFrom>>
    /\ CookieFrame

\* is_valid, message = test_cookie_session(force=False) of
\* validate_session_for_job, and its return when the session is valid
job_test_session ==
    /\ callPc = "job_test"
    /\ IF is_cache_valid(cacheFile)
       THEN /\ verdict' = [verdict EXCEPT
                              !.atDecide = cacheFile,
                              !.can_proceed = cacheFile.is_valid]
            /\ callPc' = IF cacheFile.is_valid THEN "done" ELSE "job_check"
            /\ UNCHANGED <<cacheFile, lastProbe, cacheFrom>>
       ELSE \E outcome \in probe_outcomes(cookies) :
              /\ verdict' = [verdict EXCEPT
                                !.atDecide = cacheFile,
                                !.outcome = outcome,
                                !.can_proceed = (outcome = "valid")]
              /\ callPc' = IF outcome = "valid" THEN "done" ELSE "job_check"
              /\ cacheFile' = cache_after(outcome, cacheFile)
              /\ lastProbe' = outcome
              /\ cacheFrom' = from_after(outcome, cacheFrom)
    /\ UNCHANGED <<cookies, ckPc, args, cache, atDecide, probed, basis, health>>
    /\ UNCHANGED <<caller, alerts, errBefore>>
    /\ CookieFrame

\* The session is not valid:
\* health_info = check_cookie_health(use_session_test=True, force_test=False)
job_check_health ==
    /\ callPc = "job_check"
    /\ check_cookie_health(TRUE, FALSE)
    /\ callPc' = "job_alert"
    /\ UNCHANGED <<caller, alerts, verdict, lastProbe, errBefore, cacheFrom>>

\* send_cookie_alert(health_info), then
\* return False, "Session invalid: ... Alert sent."
job_send_alert ==
    /\ callPc = "job_alert"
    /\ ckPc = "returned"
    /\ alerts' = send_cookie_alert(health)
    /\ callPc' = "done"
    /\ UNCHANGED <<cookies, cacheFile, ckPc, args, cache, atDecide, probed,
                   basis, health>>
    /\ UNCHANGED <<caller, verdict, lastProbe, errBefore, cacheFrom>>
    /\ CookieFrame

CookieNext ==
    \/ tick
    \/ set_cookies
    \/ \E use_session_test \in BOOLEAN, force_test \in BOOLEAN :
          api_check(use_session_test, force_test)
    \/ use_cache_or_test
    \/ test_cookie_session
    \/ \E send_alert \in BOOLEAN, force_test \in BOOLEAN :
          run_cookie_health_check(send_alert, force_test)
    \/ run_send_alert
    \/ validate_session_for_job
    \/ job_test_session
    \/ job_check_health
    \/ job_send_alert

\* ------------------------------------------------------------------------
\* The scraper adapters: SeekJobScraper.scrape_jobs
\* (job_sources/seek_job_scraper.py) and LinkedInJobScraper.scrape_job_page
\* (job_sources/linkedin_job_scraper.py)
\* ------------------------------------------------------------------------
\* Config.MAX_JOBS_TO_SCRAPE and Config.MAX_JOBS_FOR_DESCRIPTION as the
\* constructors read them
Caps ==
    [max_jobs_to_scrape : 0..MaxCap, max_jobs_for_description : 0..MaxCap]

\* all_jobs[:self.max_jobs_to_scrape] for a cap >= 0, as a length
sliced(n, cap) == IF n < cap THEN n ELSE cap

\* has_valid_session after the session check of browser_scrape, were a
\* failed check to leave the mode as it is
session_after_kept(valid, session_ok) == valid

\* has_valid_session after the session check of browser_scrape:
\* if not self._verify_session(tab): self.has_valid_session = False
session_after(valid, session_ok) == valid /\ session_ok

ScrapeIdle ==
    /\ scPc = "off"
    /\ caps = [max_jobs_to_scrape |-> 0, max_jobs_for_description |-> 0]
    /\ has_valid_session = FALSE
    /\ verified = "none"
    /\ scrapes = 0
    /\ page_count = 0
    /\ cards_left = 0
    /\ all_jobs = 0
    /\ jobs = 0
    /\ processed_cards = 0
    /\ processed_descriptions = 0
    /\ fetches = 0
    /\ job_list = -1

\* The two scrapers have been constructed; the LinkedIn scraper has a
\* session if _load_cookies applied the saved cookies
ScrapeInit ==
    /\ scPc = "idle"
    /\ caps \in Caps
    /\ has_valid_session \in BOOLEAN
    /\ verified = "none"
    /\ scrapes = 0
    /\ page_count = 0
    /\ cards_left = 0
    /\ all_jobs = 0
    /\ jobs = 0
    /\ processed_cards = 0
    /\ processed_descriptions = 0
    /\ fetches = 0
    /\ job_list = -1

\* SeekJobScraper.scrape_jobs up to its loop; an invalid base_url returns []
scrape_jobs ==
    /\ scPc \in {"idle", "returned"}
    /\ scrapes < MaxScrapes
    /\ scrapes' = scrapes + 1
    /\ \E valid_url \in BOOLEAN :
         IF valid_url
         THEN /\ scPc' = "seek_page"
              /\ job_list' = -1
         ELSE /\ scPc' = "returned"
              /\ job_list' = 0
    /\ page_count' = 1
    /\ all_jobs' = 0
    /\ jobs' = 0
    /\ cards_left' = 0
    /\ fetches' = 0
    /\ verified' = "none"
    /\ UNCHANGED <<caps, has_valid_session, processed_cards,
                   processed_descriptions>>
    /\ ScrapeFrame

\* soup = BeautifulSoup(tab.html); _extract_jobs starts on the job cards of
\* the page with jobs = []
seek_parse_page ==
    /\ scPc = "seek_page"
    /\ \E n \in 0..MaxCards : cards_left' = n
    /\ jobs' = 0
    /\ scPc' = "seek_extract"
    /\ UNCHANGED <<caps, has_valid_session, verified, scrapes, page_count,
                   all_jobs, processed_cards, processed_descriptions, fetches,
                   job_list>>
    /\ ScrapeFrame

\* One card of _extract_jobs: break at max_jobs_to_scrape; the detail page
\* is fetched if len(jobs) < max_jobs_for_description and the card has a
\* job_url; jobs.append(job)
seek_extract_card ==
    /\ scPc = "seek_extract"
    /\ cards_left > 0
    /\ IF jobs >= caps.max_jobs_to_scrape
       THEN /\ cards_left' = 0
            /\ UNCHANGED <<jobs, fetches>>
       ELSE \E has_url \in BOOLEAN :
              /\ fetches' = IF jobs < caps.max_jobs_for_description /\ has_url
                            THEN fetches + 1 ELSE fetches
              /\ jobs' = jobs + 1
              /\ cards_left' = cards_left - 1
    /\ UNCHANGED <<scPc, caps, has_valid_session, verified, scrapes,
                   page_count, all_jobs, processed_cards,
                   processed_descriptions, job_list>>
    /\ ScrapeFrame

\* _extract_jobs has returned: no jobs ends the loop, else
\* all_jobs.extend(jobs), the test of the job limit and the pagination;
\* return all_jobs[:self.max_jobs_to_scrape]
seek_page_done ==
    /\ scPc = "seek_extract"
    /\ cards_left = 0
    /\ all_jobs' = all_jobs + jobs
    /\ \E next_page \in BOOLEAN :
         IF /\ jobs > 0
            /\ all_jobs' < caps.max_jobs_to_scrape
            /\ next_page
            /\ page_count < MaxPages
         THEN /\ scPc' = "seek_page"
              /\ page_count' = page_count + 1
              /\ UNCHANGED job_list
         ELSE /\ scPc' = "returned"
              /\ job_list' = sliced(all_jobs', caps.max_jobs_to_scrape)
              /\ UNCHANGED page_count
    /\ UNCHANGED <<caps, has_valid_session, verified, scrapes, cards_left,
                   jobs, processed_cards, processed_descriptions, fetches>>
    /\ ScrapeFrame

\* The browser raises inside scrape_jobs or browser_scrape: the except
\* clause returns no jobs
scrape_fails ==
    /\ scPc \in {"seek_page", "li_wait"}
    /\ scPc' = "returned"
    /\ job_list' = 0
    /\ UNCHANGED <<caps, has_valid_session, verified, scrapes, page_count,
                   cards_left, all_jobs, jobs, processed_cards,
                   processed_descriptions, fetches>>
    /\ ScrapeFrame

\* LinkedInJobScraper.scrape_job_page and browser_scrape up to the wait for
\* the results: an invalid URL returns None; without a session the login
\* wall is handled; with one the session is verified on the search page and,
\* if that fails, the scraper falls back to anonymous mode and handles the
\* login wall
scrape_job_page ==
    /\ scPc \in {"idle", "returned"}
    /\ scrapes < MaxScrapes
    /\ scrapes' = scrapes + 1
    /\ \E valid_url \in BOOLEAN, session_ok \in BOOLEAN :
         IF ~valid_url
         THEN /\ scPc' = "returned"
              /\ job_list' = 0
              /\ verified' = "none"
              /\ UNCHANGED has_valid_session
         ELSE /\ scPc' = "li_wait"
              /\ job_list' = -1
              /\ verified' = IF ~has_valid_session THEN "none"
                             ELSE IF session_ok THEN "ok" ELSE "failed"
              /\ has_valid_session' = session_after(has_valid_session, session_ok)
    /\ page_count' = 1
    /\ all_jobs' = 0
    /\ jobs' = 0
    /\ cards_left' = 0
    /\ fetches' = 0
    /\ processed_cards' = 0
    /\ processed_descriptions' = 0
    /\ UNCHANGED caps
    /\ ScrapeFrame

\* The results have loaded: load_all_jobs, soup = BeautifulSoup(tab.html),
\* extract_job_listings starts on the job cards
li_parse_page ==
    /\ scPc = "li_wait"
    /\ \E n \in 0..MaxCards : cards_left' = n
    /\ scPc' = "li_extract"
    /\ UNCHANGED <<caps, has_valid_session, verified, scrapes, page_count,
                   all_jobs, jobs, processed_cards, processed_descriptions,
                   fetches, job_list>>
    /\ ScrapeFrame

\* One card of extract_job_listings: break after max_listings cards; the
\* detail page is fetched if processed_descriptions <
\* max_jobs_for_description and the card has a job_url; the job is appended
\* if it has a title or a URL
li_extract_card ==
    /\ scPc = "li_extract"
    /\ cards_left > 0
    /\ processed_cards' = processed_cards + 1
    /\ IF processed_cards' > caps.max_jobs_to_scrape
       THEN /\ cards_left' = 0
            /\ UNCHANGED <<jobs, processed_descriptions, fetches>>
       ELSE \E has_url \in BOOLEAN, has_title \in BOOLEAN :
              /\ IF processed_descriptions < caps.max_jobs_for_description
                    /\ has_url
                 THEN /\ processed_descriptions' = processed_descriptions + 1
                      /\ fetches' = fetches + 1
                 ELSE UNCHANGED <<processed_descriptions, fetches>>
              /\ jobs' = IF has_title \/ has_url THEN jobs + 1 ELSE jobs
              /\ cards_left' = cards_left - 1
    /\ UNCHANGED <<scPc, caps, has_valid_session, verified, scrapes,
                   page_count, all_jobs, job_list>>
    /\ ScrapeFrame

\* return job_listings
li_return ==
    /\ scPc = "li_extract"
    /\ cards_left = 0
    /\ scPc' = "returned"
    /\ job_list' = jobs
    /\ UNCHANGED <<caps, has_valid_session, verified, scrapes, page_count,
                   cards_left, all_jobs, jobs, processed_cards,
                   processed_descriptions, fetches>>
    /\ ScrapeFrame

ScrapeNext ==
    \/ scrape_jobs
    \/ seek_parse_page
    \/ seek_extract_card
    \/ seek_page_done
    \/ scrape_fails
    \/ scrape_job_page
    \/ li_parse_page
    \/ li_extract_card
    \/ li_return

Init ==
    /\ TaskInit /\ UrlIdle /\ CleanIdle /\ PipeIdle
    /\ ScoreIdle /\ RunIdle /\ CookieIdle
    /\ ScrapeIdle

Next == TaskNext

Spec == Init /\ [][Next]_vars

InitUrl ==
    /\ UrlInit /\ TaskInit /\ CleanIdle /\ PipeIdle
    /\ ScoreIdle /\ RunIdle /\ CookieIdle
    /\ ScrapeIdle

SpecUrl == InitUrl /\ [][UrlNext]_vars

InitClean ==
    /\ CleanInit /\ TaskInit /\ UrlIdle /\ PipeIdle
    /\ ScoreIdle /\ RunIdle /\ CookieIdle
    /\ ScrapeIdle

SpecClean == InitClean /\ [][CleanNext]_vars

InitPipe ==
    /\ PipeInit /\ TaskInit /\ UrlIdle /\ CleanIdle
    /\ ScoreIdle /\ RunIdle /\ CookieIdle
    /\ ScrapeIdle

SpecPipe == InitPipe /\ [][PipeNext]_vars

InitScore ==
    /\ ScoreInit /\ TaskInit /\ UrlIdle /\ CleanIdle /\ PipeIdle
    /\ RunIdle /\ CookieIdle
    /\ ScrapeIdle

SpecScore == InitScore /\ [][ScoreNext]_vars

InitRun ==
    /\ RunInit /\ TaskInit /\ UrlIdle /\ CleanIdle /\ PipeIdle
    /\ ScoreIdle /\ CookieIdle
    /\ ScrapeIdle

SpecRun == InitRun /\ [][RunNext]_vars

InitRerun ==
    /\ RerunInit /\ TaskInit /\ UrlIdle /\ CleanIdle /\ PipeIdle
    /\ ScoreIdle /\ CookieIdle
    /\ ScrapeIdle

SpecRerun == InitRerun /\ [][RunNext]_vars

InitCookie ==
    /\ CookieInit /\ TaskInit /\ UrlIdle /\ CleanIdle /\ PipeIdle
    /\ ScoreIdle /\ RunIdle
    /\ ScrapeIdle

SpecCookie == InitCookie /\ [][CookieNext]_vars

InitScrape ==
    /\ ScrapeInit /\ TaskInit /\ UrlIdle /\ CleanIdle /\ PipeIdle
    /\ ScoreIdle /\ RunIdle /\ CookieIdle

SpecScrape == InitScrape /\ [][ScrapeNext]_vars

\* ------------------------------------------------------------------------
\* Properties of the task store
\* ------------------------------------------------------------------------
\* No thread is inside a store call
Quiescent == \A t \in TaskIds : phase[t] = "none"

TerminalStatus == {COMPLETED, FAILED}

\* C1: the writes of concurrent runs on distinct task ids leave the file as
\* if they had been applied one after another: whenever no store call is in
\* flight, every task holds exactly the result of its own create and updates.
C1_SerialEquivalence ==
    Quiescent => \A t \in TaskIds : get_task(tasksFile, t) = expected[t]

\* C2: the progress a caller observes for one task id never decreases from
\* one get to a later get, and stays within 0..100.
C2_ProgressMonotone ==
    [][\A t \in TaskIds :
          /\ polled'[t].progress \in 0..100
          /\ polled[t].found => polled'[t].progress >= polled[t].progress]_vars

\* Moves of the stored status that pending -> running -> {completed, failed}
\* allows
ForwardMove(s1, s2) ==
    \/ s1 = s2
    \/ s1 = PENDING /\ s2 = RUNNING
    \/ s1 = RUNNING /\ s2 \in TerminalStatus

\* C3: a stored status only moves forward along
\* pending -> running -> {completed, failed}, and a completed or failed task
\* never changes status again.
C3_StatusForward ==
    [][\A t \in TaskIds :
          LET s1 == get_task(tasksFile, t).status
              s2 == get_task(tasksFile', t).status
          IN  (s1 # "absent" /\ s2 # "absent") => ForwardMove(s1, s2)]_vars

\* C4: every run that was started ends with a terminal stored status: once
\* every started worker has returned, each of their tasks is completed or
\* failed.
C4_RunsTerminate ==
    (\A u \in TaskIds : pc[u] \in {"idle", "done"}) =>
        \A t \in TaskIds :
            pc[t] = "done" => get_task(tasksFile, t).status \in TerminalStatus

C6_CreatedIsFound ==
    \A t \in TaskIds : ~polled[t].lost

\* ------------------------------------------------------------------------
\* Properties of canonicalize_url
\* ------------------------------------------------------------------------
\* C9: canonicalize_url(canonicalize_url(url)) = canonicalize_url(url) for
\* every url, None and the empty string included.
C9_Idempotent ==
    urlPc = "twice" => canon2 = canon

\* ------------------------------------------------------------------------
\* Properties of clean_html
\* ------------------------------------------------------------------------
\* C10: clean_html never raises and returns a string of at most max_length
\* characters for every input of the pipeline, a missing description included.
C10_NeverRaisesBounded ==
    /\ cleanPc # "raised"
    /\ cleanPc = "returned" => (~cleaned.null /\ Len(cleaned.s) <= max_length)

\* ------------------------------------------------------------------------
\* Properties of the scraping phase
\* ------------------------------------------------------------------------
SameCanonical(r1, r2) == canonicalize_url(r1.link) = canonicalize_url(r2.link)

\* C7: within one run, a source whose scraped list holds two postings with
\* the same canonical URL creates one record for that URL, not two.
C7_OncePerRunAndSource ==
    \A r1, r2 \in table :
        (r1 # r2 /\ r1.run = r2.run /\ r1.source = r2.source) =>
            ~SameCanonical(r1, r2)

\* C8: across runs the store never holds more than one record per canonical
\* URL: a posting persisted by an earlier run is not persisted again.
C8_OncePerCanonicalUrl ==
    \A r1, r2 \in table : r1 # r2 => ~SameCanonical(r1, r2)

\* The stored 'Job Link' is a canonical URL
StoredCanonical(rec) == canonicalize_url(rec.link) = rec.link

\* C23: the existence check against the store closes the race between
\* concurrent source tasks: when two tasks of one run both scraped the same
\* canonical URL, then in every interleaving of their in-memory check, store
\* check and create call at most one record for that URL is created.
C23_RaceClosed ==
    \A r1, r2 \in table :
        (/\ r1 # r2
         /\ r1.run = r2.run
         /\ r1.source # r2.source
         /\ StoredCanonical(r1)
         /\ StoredCanonical(r2)) => r1.link # r2.link

\* ------------------------------------------------------------------------
\* Properties of calculate_match_score
\* ------------------------------------------------------------------------
\* C11: the score calculate_match_score returns is a number in [0, 10], for
\* every lexical score and every outcome of the semantic evaluator.
C11_ScoreInRange ==
    scorePc = "returned" =>
        (match.score.k = "num" /\ match.score.v >= 0 /\ match.score.v <= 10000)

\* The semantic stage produced a result: the evaluator answered with JSON
\* whose score float() accepts, for non-blank texts
SemanticResult ==
    /\ texts = "text"
    /\ llm.kind = "json"
    /\ llm.has_score
    /\ llm.score.k \notin {"null", "text"}

\* The lexical score of the inputs
Lexical == IF texts = "text" /\ similarity >= 0 THEN similarity * 100 ELSE 0

\* The semantic score of the answer, clamped to [0, 10]
Semantic ==
    IF llm.score.k = "nan" THEN NaN
    ELSE IF gt(llm.score, Num(10000)) THEN Num(10000)
    ELSE IF gt(Num(0), llm.score) THEN Num(0)
    ELSE llm.score

\* C12: the returned score is 0.1 * lexical + 0.9 * semantic, with the
\* evaluator's reasons and suggestions, exactly when the semantic stage
\* produced a result; otherwise it is the lexical score with empty reasons
\* and suggestions; the call never raises.
C12_BlendOrLexical ==
    /\ scorePc # "raised"
    /\ scorePc = "returned" =>
         IF SemanticResult
         THEN /\ match.score =
                   weighted(Num(Lexical), 1, Semantic, 9)
              /\ match.analysis.reasons = llm.reasons
              /\ match.analysis.suggestions = llm.improvement_suggestions
         ELSE /\ match.score = Num(Lexical)
              /\ match.analysis.reasons = <<>>
              /\ match.analysis.suggestions = <<>>

\* A blended score with reasons has been returned
C12_Witness ==
    /\ scorePc = "returned"
    /\ SemanticResult
    /\ match.score = Num(7570)
    /\ match.analysis.reasons = <<"x">>

\* ------------------------------------------------------------------------
\* Properties of one run of process_jobs
\* ------------------------------------------------------------------------
\* What a source task contributes: its counter, or zero when it raised
Contribution == [s \in Sources |-> IF failedSrc[s] THEN 0 ELSE counts[s]]

\* C13: a failing source task does not affect its siblings: once the
\* scraping phase is over every source task has finished, the total of new
\* postings is the sum of the counts of the tasks that did not raise, and no
\* exception of a source has left process_jobs.
C13_FailuresIsolated ==
    /\ runPhase # "raised"
    /\ runPhase \in {"matching", "done"} =>
         /\ \A s \in Sources : taskPc[s] = "done"
         /\ total_new = SumOver(Contribution, Sources)

\* One source raised after creating a record, another returned 1
C13_Witness ==
    /\ runPhase = "matching"
    /\ total_new = 1
    /\ \E s \in Sources : failedSrc[s] /\ counts[s] = 1
    /\ \E s \in Sources : ~failedSrc[s] /\ counts[s] = 1

\* C14: the matching phase starts only after every source task has
\* finished, at most once per run, and if and only if the total of new
\* postings is greater than zero; with a total of zero the run returns the
\* empty list and makes no scoring, update or generation call.
C14_MatchingIffNew ==
    /\ matchStarts <= 1
    /\ runPhase = "scraping" => (matchStarts = 0 /\ log = <<>>)
    /\ runPhase = "matching" =>
         (total_new > 0 /\ \A s \in Sources : taskPc[s] = "done")
    /\ runPhase = "done" =>
         /\ matchStarts = 1 <=> total_new > 0
         /\ total_new = 0 => (returned = <<>> /\ log = <<>>)

\* A run with a total of zero has ended although a record was created
C14_Witness ==
    /\ runPhase = "done"
    /\ total_new = 0
    /\ matchStarts = 0
    /\ \E l \in JobLinks : postings[l].stored

\* Number of calls op for the record of link l so far
Calls(op, l) == Cardinality({i \in 1..Len(log) : log[i].op = op /\ log[i].link = l})

\* The score calculate_match_score returned for a scored record
ScoredAt(i) == log[i].op = "score"

\* C15: for every posting processed, document generation is invoked exactly
\* once if its score is >= the threshold (the boundary included) and never
\* if the score is below it.
C15_GenerateIffAboveThreshold ==
    \A i \in 1..Len(log) :
        ScoredAt(i) =>
            /\ Calls("generate", log[i].link) <= 1
            /\ (log[i].score.k = "num" /\ log[i].score.v < JobMatchThreshold) =>
                   Calls("generate", log[i].link) = 0
            /\ (runPhase = "done" /\ log[i].score.k = "num"
                  /\ log[i].score.v >= JobMatchThreshold) =>
                   Calls("generate", log[i].link) = 1

\* A posting at the threshold had one generation call, one below it none
C15_Witness ==
    /\ runPhase = "done"
    /\ \E i, j \in 1..Len(log) :
         /\ ScoredAt(i) /\ log[i].score = Num(JobMatchThreshold)
         /\ Calls("generate", log[i].link) = 1
         /\ ScoredAt(j) /\ log[j].score = Num(4000)
         /\ Calls("generate", log[j].link) = 0

\* The score update of a scored record follows its scoring at once, before
\* any generation call for it
UpdateFirst ==
    \A i \in 1..Len(log) :
        ScoredAt(i) =>
            /\ i < Len(log)
            /\ log[i + 1].op = "update"
            /\ log[i + 1].link = log[i].link
            /\ log[i + 1].score = log[i].score
            /\ \A j \in 1..Len(log) :
                 (log[j].op = "generate" /\ log[j].link = log[i].link) => j > i + 1

\* The store holds the score of every record whose score update returned a
\* record, and the reasons and suggestions of the record in hand
ScorePersisted ==
    \A i \in 1..Len(log) :
        (log[i].op = "update" /\ log[i].ok) =>
            /\ postings[log[i].link].scored
            /\ postings[log[i].link].score = log[i].score
            /\ (matchPc = "generate" /\ cur.link = log[i].link) =>
                   /\ postings[cur.link].reasons = cur.analysis.reasons
                   /\ postings[cur.link].suggestions = cur.analysis.suggestions

\* A step of the generation leaves every persisted score as it was
ScoreKept ==
    matchPc = "generate" =>
        \A l \in JobLinks :
            postings[l].scored =>
                /\ postings'[l].scored
                /\ postings'[l].score = postings[l].score
                /\ postings'[l].reasons = postings[l].reasons
                /\ postings'[l].suggestions = postings[l].suggestions

\* C16: the score of every scored posting, with its reasons and
\* suggestions, is written to the store for postings below and above the
\* threshold alike, before any generation call for the posting, and a later
\* generation failure does not remove or change the persisted score.
C16_ScoreAlwaysPersisted ==
    /\ [](UpdateFirst /\ ScorePersisted)
    /\ [][ScoreKept]_vars

\* A posting whose generation raised and a posting below the threshold both
\* keep their persisted scores
C16_Witness ==
    /\ runPhase = "done"
    /\ \E l, m \in JobLinks :
         /\ Calls("generate", l) = 1 /\ Calls("attach", l) = 0
         /\ postings[l].scored /\ postings[l].score = Num(8200)
         /\ postings[l].reasons = <<"x">>
         /\ Calls("generate", m) = 0
         /\ postings[m].scored /\ postings[m].score = Num(4000)

\* C17: a generation failure for one posting does not abort the loop: when
\* the matching phase has returned, every record of the unprocessed list has
\* been scored and had its score update issued and, if above the threshold,
\* its generation attempted; a posting whose generation failed has no
\* artifact reference and keeps its persisted score.
C17_LoopSurvivesFailure ==
    /\ runPhase # "raised"
    /\ runPhase = "done" =>
         \A k \in 1..Len(unprocessed_jobs) :
             LET l == unprocessed_jobs[k] IN
             /\ Calls("score", l) = 1
             /\ Calls("update", l) = 1
             /\ \A i \in 1..Len(log) :
                  (ScoredAt(i) /\ log[i].link = l) =>
                      /\ ge(log[i].score, Num(JobMatchThreshold)) =>
                             Calls("generate", l) = 1
                      /\ (Calls("generate", l) = 1 /\ Calls("attach", l) = 0) =>
                             /\ postings[l].cv_link = ""
                             /\ postings[l].scored =>
                                    postings[l].score = log[i].score

\* The generation of the first record raised, the second record was scored
\* and got its document, and the phase returned
C17_Witness ==
    /\ runPhase = "done"
    /\ Len(unprocessed_jobs) = 2
    /\ Calls("generate", unprocessed_jobs[1]) = 1
    /\ Calls("attach", unprocessed_jobs[1]) = 0
    /\ postings[unprocessed_jobs[1]].scored
    /\ postings[unprocessed_jobs[2]].cv_link = "url"
    /\ Len(returned) = 1

\* C18: every entry of the returned list scored >= the threshold and has a
\* non-null artifact reference that is persisted in the store.
C18_ReturnedHaveArtifact ==
    runPhase = "done" =>
        \A k \in 1..Len(returned) :
            /\ ge(returned[k].score, Num(JobMatchThreshold))
            /\ returned[k].cv_url # "None"
            /\ postings[returned[k].link].cv_link = "url"

\* This step fetches the unprocessed records
Fetches == matchPc = "start" /\ matchPc' = "loop"

\* This step scores the record of link l
Scores(l) ==
    /\ Len(log') > Len(log)
    /\ log'[Len(log) + 1].op = "score"
    /\ log'[Len(log) + 1].link = l

\* This step calls generate_targeted_cv for the record of link l
Generates(l) ==
    /\ Len(log') > Len(log)
    /\ log'[Len(log) + 1].op = "generate"
    /\ log'[Len(log) + 1].link = l

\* The score of the record of link l was persisted by an earlier run
ScoredEarlier(l) == postings[l].scored /\ Calls("update", l) = 0

\* C24: the matching phase processes only postings without a prior match
\* score: a posting whose score was persisted by an earlier matching phase,
\* below or above the threshold, is not fetched as unprocessed, not scored
\* again and not sent to generation again in a later run.
C24_ScoredOnce ==
    [][\A l \in JobLinks :
          /\ Fetches =>
               \A k \in 1..Len(unprocessed_jobs') :
                   ~postings[unprocessed_jobs'[k]].scored
          /\ Scores(l) => ~ScoredEarlier(l)
          /\ Generates(l) => ~ScoredEarlier(l)]_vars

\* The fields of a stored record that the pipeline must leave alone stay as
\* they are in this step, and the record stays stored under its 'Job Link'
PostingKept(l) ==
    postings[l].stored =>
        /\ postings'[l].stored
        /\ postings'[l].data = postings[l].data

\* C27: a persisted posting is immutable to the pipeline: the store updates
\* of the matching phase change only the match fields of a record (score,
\* artifact link, reasons, suggestions), and the scraping phase never
\* updates an existing record.
C27_PostingImmutable ==
    [][\A l \in JobLinks :
          /\ PostingKept(l)
          /\ (runPhase = "scraping" /\ postings[l].stored) =>
                 postings'[l] = postings[l]]_vars

\* A record has been scored and has got its document, and still holds what
\* the scraper found for its posting
C27_Witness ==
    /\ runPhase = "done"
    /\ \E l \in JobLinks :
         /\ postings[l].data = l
         /\ postings[l].scored
         /\ postings[l].cv_link = "url"
         /\ postings[l].reasons = <<"x">>
         /\ Calls("update", l) = 1
         /\ Calls("attach", l) = 1

\* C29: if at least one new posting was persisted during the scraping phase
\* of a run, the matching phase runs in that run, also when the source task
\* that persisted it raised before it returned its count.
C29_PersistedThenMatched ==
    (runPhase = "done" /\ \E s \in Sources : counts[s] > 0) =>
        matchStarts > 0

\* ------------------------------------------------------------------------
\* Properties of check_cookie_health
\* ------------------------------------------------------------------------
\* A check with session testing has returned
Checked == ckPc = "returned" /\ args.use_session_test

\* C19: with session testing, no persisted cookies gives missing with
\* needs_refresh; cookies whose probe (fresh or cached) failed give invalid
\* with needs_refresh; cookies whose probe succeeded give healthy without
\* needs_refresh; session_valid is true exactly when the status is healthy.
C19_StatusOfSession ==
    Checked =>
        /\ args.cookies = "none" =>
             (health.status = MISSING /\ health.needs_refresh)
        /\ (args.cookies = "saved" /\ ~basis) =>
             (health.status = INVALID /\ health.needs_refresh)
        /\ (args.cookies = "saved" /\ basis) =>
             (health.status = HEALTHY /\ ~health.needs_refresh)
        /\ health.session_valid <=> health.status = HEALTHY

\* A cached failed probe has been reported as invalid
C19_Witness ==
    /\ Checked
    /\ args.cookies = "saved"
    /\ ~probed
    /\ ~basis
    /\ health.status = INVALID
    /\ health.needs_refresh

\* There was a cached probe result younger than 24 hours when the call chose
YoungCache == atDecide.exists /\ atDecide.age < 24

\* C20: with a persisted session, a check probes if and only if force_test
\* is true or there is no cached probe result younger than 24 hours; a check
\* that does not probe returns the cached result.
C20_ProbeIffForcedOrStale ==
    (Checked /\ args.cookies = "saved") =>
        /\ probed <=> (args.force_test \/ ~YoungCache)
        /\ ~probed => (cache.exists /\ basis = cache.is_valid
                         /\ cache = [atDecide EXCEPT !.age = cache.age]
                         /\ cache.age <= atDecide.age)

\* A check 12 hours after a probe has returned its result without probing
C20_Witness ==
    /\ Checked
    /\ args.cookies = "saved"
    /\ ~args.force_test
    /\ ~probed
    /\ atDecide.age = 12
    /\ health.status = HEALTHY

\* ------------------------------------------------------------------------
\* Properties of the alerts and of validate_session_for_job
\* ------------------------------------------------------------------------
\* The entry point has returned
Returned(name) == callPc = "done" /\ caller.name = name

\* validate_session_for_job has refused a job whose session it found invalid
RefusedInvalid ==
    Returned("job") /\ verdict.cookies # "none" /\ ~verdict.can_proceed

\* C21: an alert is dispatched whenever a health evaluation concludes that
\* the session is invalid, in run_cookie_health_check with send_alert and in
\* validate_session_for_job when it refuses a job for an invalid session; no
\* alert is dispatched when the evaluated status is healthy or untested.
C21_AlertIffInvalid ==
    /\ (Returned("run") /\ caller.send_alert /\ health.status = INVALID) =>
          alerts > 0
    /\ RefusedInvalid => alerts > 0
    /\ ((Returned("run") \/ Returned("job"))
           /\ health.status \in {HEALTHY, UNTESTED}) => alerts = 0

\* The probe result validate_session_for_job goes by: the cached one when
\* it is younger than 24 hours and nothing is probed, else that of a probe
UsedResultValid ==
    IF verdict.atDecide.exists /\ verdict.atDecide.age < 24
    THEN verdict.outcome = "none" /\ verdict.atDecide.is_valid
    ELSE verdict.outcome = "valid"

\* C22: validate_session_for_job refuses without starting a probe when no
\* persisted session exists; with a session it returns can-proceed true if
\* and only if the probe result it uses (the cached one when younger than
\* 24h, otherwise a fresh probe) is valid.
C22_JobProceedsIffValid ==
    Returned("job") =>
        /\ verdict.cookies = "none" =>
              (~verdict.can_proceed /\ verdict.outcome = "none" /\ alerts = 0)
        /\ verdict.cookies # "none" =>
              (verdict.can_proceed <=> UsedResultValid)

\* A job was let through on a cached result 12 hours old
C22_Witness ==
    /\ Returned("job")
    /\ verdict.cookies = "saved"
    /\ verdict.atDecide.age = 12
    /\ verdict.outcome = "none"
    /\ verdict.can_proceed

\* ------------------------------------------------------------------------
\* Properties of the session cache
\* ------------------------------------------------------------------------
\* The cache file holds the answer of a probe that had a definite answer
CacheIsDefinite ==
    cacheFile.exists =>
        /\ cacheFrom.outcome \in {"valid", "invalid"}
        /\ cacheFile.is_valid = (cacheFrom.outcome = "valid")

\* A check without force_test has returned, and the probe before it raised
CheckedAfterError ==
    Checked /\ args.cookies = "saved" /\ ~args.force_test /\ errBefore

ErrorInCheck == ckPc = "test" /\ probed' /\ lastProbe' = "error"

ErrorInJob == callPc = "job_test" /\ verdict'.outcome = "error"

\* This step wrote the cache file
CacheWritten ==
    \/ cacheFile'.exists # cacheFile.exists
    \/ cacheFile'.is_valid # cacheFile.is_valid
    \/ cacheFile'.age < cacheFile.age

ReportsCached ==
    \/ ckPc \in {"decide", "test"} /\ ckPc' = "returned" /\ ~probed'
    \/ callPc = "job_test" /\ callPc' # "job_test" /\ verdict'.outcome = "none"

\* C30: a cached probe result is only reported for the session it was
\* obtained from: once the cookies have been saved again, no non-forced
\* health check or job validation returns the result cached for the
\* previous cookies.
C30_CacheOfCurrentSession ==
    [][ReportsCached => ~cacheFrom.replaced]_vars

\* ------------------------------------------------------------------------
\* Properties of the scraper adapters
\* ------------------------------------------------------------------------
\* C25: for every adapter call, the number of postings returned is at most
\* max_jobs_to_scrape and the number of detail pages fetched during the call
\* is at most max_jobs_for_description, for any number of result cards and
\* of result pages.
C25_CapsRespected ==
    /\ job_list <= caps.max_jobs_to_scrape
    /\ fetches <= caps.max_jobs_for_description

\* This step is a session check of browser_scrape that fails
VerificationFails ==
    /\ scPc \in {"idle", "returned"}
    /\ has_valid_session
    /\ verified' = "failed"

\* C26: when the LinkedIn adapter starts a scrape with a loaded session and
\* the session check on the search page fails, it switches to
\* unauthenticated mode and goes on with the same scrape; from then on the
\* instance stays in unauthenticated mode (has_valid_session never returns
\* to true).
C26_DegradesToAnonymous ==
    [][/\ VerificationFails => (~has_valid_session' /\ scPc' = "li_wait")
       /\ ~has_valid_session => ~has_valid_session']_vars

\* After a failed session check the same scrape has returned listings, and
\* the scraper is in anonymous mode
C26_Witness ==
    /\ scPc = "returned"
    /\ verified = "failed"
    /\ ~has_valid_session
    /\ job_list > 0

====
